---- MODULE Spec2Model ----
(***************************************************************************)
(* Model of the connection registry and message-relay core of Grandmaster  *)
(* (src/src/websocket_server.py): AppConnection, WebSocketServer.start,    *)
(* stop, broadcast, _handle_connection and get_status, and of the start of *)
(* Grandmaster (src/src/grandmaster.py), run on one asyncio event loop.    *)
(* Every action is one run of a coroutine between two await points, so     *)
(* what the code does without awaiting is atomic here.                     *)
(***************************************************************************)
EXTENDS Integers, Sequences, FiniteSets, Bags, TLC

\* ---------------------------------------------------------------- bounds
NumConns == 2        \* transport connections accepted during a run
NumIds == 2          \* distinct values id(websocket) can take
MaxTime == 1         \* readings of the event loop's clock
MaxSink == 1         \* relays the notification sink accepts during a run
MaxStops == 2        \* calls of stop()
MaxClientFrames == 3  \* frames the client's listener receives during a run
NumApps == 2          \* application names
NumCalls == 2         \* calls of the application operations in progress at once
MaxBroadcasts == 1   \* calls of broadcast()
MaxSuccesses == 2    \* connection attempts of the client that succeed during a run
max_reconnect_attempts == 8   \* GrandmasterClient's max_reconnect_attempts
reconnect_interval == 5       \* GrandmasterClient's reconnect_interval, in seconds

Conns == 1..NumConns
Apps == 1..NumApps
Calls == 1..NumCalls
Ids == 1..NumIds
NoId == 0

\* ------------------------------------------------------- frames and JSON
Absent == "<absent>"
NonString == "<non-string>"

\* A frame body as the transport delivers it, with what json.loads makes of
\* it: `parse` is the Python type of the decoded value, or the exception
\* json.loads raises.  For an object, app/content are the values under those
\* keys; for a str or a list they tell whether the key is a substring /
\* an element ("in" of Python), Absent meaning it is not.
Frame(raw, parse, app, content) ==
    [raw |-> raw, parse |-> parse, app |-> app, content |-> content]

Frames ==
    { Frame("{\"app\":\"scout\",\"content\":\"hello\"}", "dict", "scout", "hello"),
      Frame("{\"content\":\"ping\"}", "dict", Absent, "ping"),
      Frame("{\"app\":7}", "dict", NonString, Absent),
      Frame("not-json", "JSONDecodeError", Absent, Absent),
      Frame("b'\\xff'", "UnicodeDecodeError", Absent, Absent),
      Frame("5", "int", Absent, Absent),
      Frame("\"content\"", "str", Absent, "content"),
      Frame("[\"app\"]", "list", "app", Absent) }

\* json.loads(message): the decoded value, or the exception raised.
json_loads(f) ==
    IF f.parse \in {"JSONDecodeError", "UnicodeDecodeError"}
    THEN [exc |-> f.parse, type |-> "none", app |-> Absent, content |-> Absent]
    ELSE [exc |-> "none", type |-> f.parse, app |-> f.app, content |-> f.content]

\* A membership test that holds of every key.
KeyInAlways(data, key) ==
    IF data.type \in {"dict", "str", "list"} THEN "True" ELSE "TypeError"

\* `key in data` of Python: membership for dict/str/list, TypeError otherwise.
KeyIn(data, key) ==
    IF data.type \in {"dict", "str", "list"}
    THEN IF data[key] # Absent THEN "True" ELSE "False"
    ELSE "TypeError"

\* `data[key]` of Python with a str key: only a dict supports it.
Subscript(data, key) ==
    IF data.type = "dict" THEN data[key] ELSE "TypeError"

\* A relay text that leaves the application's name out.
FormatRelayAnonymous(app_name, content) == [app |-> "unknown", content |-> content]

\* The formatted relay text handed to the notification sink.
FormatRelay(app_name, content) == [app |-> app_name, content |-> content]


\* A loop body without the isinstance test: any `app` value becomes the name.
ProcessFrameAnyApp(f, app_name, last_message_at, t) ==
    LET data == json_loads(f)
        same == [outcome |-> "continue", app_name |-> app_name,
                 last_message_at |-> last_message_at, content |-> Absent]
        inApp == KeyIn(data, "app")
        named == IF inApp = "True" /\ Subscript(data, "app") # "TypeError"
                 THEN Subscript(data, "app") ELSE app_name
        touched == [same EXCEPT !.app_name = named, !.last_message_at = t]
    IN  IF data.exc = "JSONDecodeError" THEN same
        ELSE IF data.exc # "none" THEN [same EXCEPT !.outcome = "raise"]
        ELSE IF inApp = "TypeError" THEN [same EXCEPT !.outcome = "raise"]
        ELSE IF inApp = "True" /\ Subscript(data, "app") = "TypeError"
             THEN [same EXCEPT !.outcome = "raise"]
        ELSE IF KeyIn(data, "content") = "True"
             THEN IF Subscript(data, "content") = "TypeError"
                  THEN [touched EXCEPT !.outcome = "raise"]
                  ELSE [touched EXCEPT !.outcome = "relay",
                                       !.content = Subscript(data, "content")]
        ELSE touched

\* A loop body that updates the timestamp only when it relays.
ProcessFrameTouchesOnRelay(f, app_name, last_message_at, t) ==
    LET data == json_loads(f)
        same == [outcome |-> "continue", app_name |-> app_name,
                 last_message_at |-> last_message_at, content |-> Absent]
        inApp == KeyIn(data, "app")
        named == IF inApp = "True" /\ Subscript(data, "app") \notin {NonString, "TypeError"}
                 THEN Subscript(data, "app") ELSE app_name
        touched == [same EXCEPT !.app_name = named, !.last_message_at = t]
    IN  IF data.exc = "JSONDecodeError" THEN same
        ELSE IF data.exc # "none" THEN [same EXCEPT !.outcome = "raise"]
        ELSE IF inApp = "TypeError" THEN [same EXCEPT !.outcome = "raise"]
        ELSE IF inApp = "True" /\ Subscript(data, "app") = "TypeError"
             THEN [same EXCEPT !.outcome = "raise"]
        ELSE IF KeyIn(data, "content") = "True"
             THEN IF Subscript(data, "content") = "TypeError"
                  THEN [touched EXCEPT !.outcome = "raise"]
                  ELSE [touched EXCEPT !.outcome = "relay",
                                       !.content = Subscript(data, "content")]
        ELSE [touched EXCEPT !.last_message_at = last_message_at]

\* One iteration of the receive loop's body after the _stopping test: the
\* session's fields afterwards and how the iteration ends: "relay" (the sink
\* is awaited with `content`), "continue" (next frame) or "raise" (an
\* exception leaves the loop).
ProcessFrame(f, app_name, last_message_at, t) ==
    LET data == json_loads(f)
        same == [outcome |-> "continue", app_name |-> app_name,
                 last_message_at |-> last_message_at, content |-> Absent]
        inApp == KeyIn(data, "app")
        named == IF inApp = "True" /\ Subscript(data, "app") \notin {NonString, "TypeError"}
                 THEN Subscript(data, "app") ELSE app_name
        touched == [same EXCEPT !.app_name = named, !.last_message_at = t]
    IN  IF data.exc = "JSONDecodeError" THEN same
        ELSE IF data.exc # "none" THEN [same EXCEPT !.outcome = "raise"]
        ELSE IF inApp = "TypeError" THEN [same EXCEPT !.outcome = "raise"]
        ELSE IF inApp = "True" /\ Subscript(data, "app") = "TypeError"
             THEN [same EXCEPT !.outcome = "raise"]
        ELSE IF KeyIn(data, "content") = "True"
             THEN IF Subscript(data, "content") = "TypeError"
                  THEN [touched EXCEPT !.outcome = "raise"]
                  ELSE [touched EXCEPT !.outcome = "relay",
                                       !.content = Subscript(data, "content")]
        ELSE touched

\* ------------------------------------------------------------------ state
VARIABLES
    server,          \* self.server: "None" or "Server"
    listening,       \* the listening endpoint accepts connections
    startPc,         \* start(): "init", "started" or "failed" (OSError raised)
    stopping,        \* self._stopping
    connections,     \* self.connections: id -> connection
    wsid,            \* conn.id = id(conn.websocket), NoId before creation
    pc,              \* position of each _handle_connection task
    exitPath,        \* how each receive loop was left
    transport,       \* each websocket: "open", "closed_ok", "closed_err", "gone"
    app_name,        \* conn.app_name
    connected_at,    \* conn.connected_at
    last_message_at, \* conn.last_message_at
    framesRead,      \* frames the receive loops have read so far, modulo 2
    removals,        \* executions of `del self.connections[conn.id]`
    now,             \* asyncio event loop time
    sink,            \* texts passed to grandmaster.send_message, in order
    stopPc,          \* position of stop()
    stopCalls,       \* calls of stop() so far
    closeTasks,      \* connections in close_tasks of stop()
    closeResults,    \* what gather has collected from the close tasks
    closeRequests,   \* websocket.close(1001, ...) calls per connection
    bcPc,            \* position of broadcast()
    bcCalls,         \* calls of broadcast() so far
    bcSnapshot,      \* connections for which broadcast created a send task
    results,         \* what each conn.send returned to gather
    failed,          \* broadcast's failure count
    sends,           \* runs of conn.send's try block per connection in this broadcast
    delivered,       \* broadcast frames that reached each peer
    gmPc,            \* position of Grandmaster.start
    telegram,        \* the Telegram client: "idle", "started" or "failed"
    notices,         \* Grandmaster's own notifications, in order
    relayFailures,   \* relays whose Grandmaster.send_message call found the sink failing
    clientPc,        \* position of the client's listener, _listen_for_messages
    clientReceived,  \* frames the client's `async for` has yielded
    clientCalls,     \* the arguments of the client's on_message calls, in order
    app_configs,     \* Grandmaster.app_configs: the "status" of each configured name
    running_apps,    \* the keys of Grandmaster.running_apps
    call,            \* the application operation each caller is in, and where
    lastCommand,     \* the last start or stop command executed, and how it ended
    gmStopPc,        \* position of Grandmaster.stop
    shutdownLog,     \* the steps Grandmaster.stop has been through, with how each ended
    client,          \* GrandmasterClient's running, connected, websocket and reconnect_count
    socket,          \* the client's latest connection: "none", "open" or "closed"
    connectPc,       \* position of GrandmasterClient.connect
    disconnectPc,    \* position of GrandmasterClient.disconnect
    connectLog       \* what connect has done: attempts, waits, failures, on_close calls

vars == <<server, listening, startPc, stopping, connections, wsid, pc, exitPath,
          transport, app_name, connected_at, last_message_at, framesRead, removals,
          now, sink, stopPc, stopCalls, closeTasks, closeResults, closeRequests,
          bcPc, bcCalls, bcSnapshot, results, failed, sends, delivered,
          gmPc, telegram, notices, relayFailures,
          clientPc, clientReceived, clientCalls,
          app_configs, running_apps, call, lastCommand,
          gmStopPc, shutdownLog,
          client, socket, connectPc, disconnectPc, connectLog>>

gmVars == <<gmPc, telegram, notices>>
relayVars == <<relayFailures>>
clientVars == <<clientPc, clientReceived, clientCalls>>
appVars == <<app_configs, running_apps, call, lastCommand>>
shutdownVars == <<gmStopPc, shutdownLog>>
reconnectVars == <<client, socket, connectPc, disconnectPc, connectLog>>
extVars == <<relayVars, clientVars, appVars, shutdownVars, reconnectVars>>

\* A caller that is in no application operation; ret is what its last call
\* returned.
Idle(ret) == [op |-> "none", fn |-> "none", app |-> 0, pc |-> "idle", ret |-> ret]

\* The applications load_configs() returns: the configured ones, stopped.
ConfiguredApps == {1}
serverVars == <<server, listening, startPc>>
stopVars == <<stopPc, stopCalls, closeTasks, closeResults, closeRequests>>
bcVars == <<bcPc, bcCalls, bcSnapshot, results, failed, sends, delivered>>
connFields == <<app_name, connected_at, last_message_at>>

\* The connections whose _handle_connection task is inside its try block.
InLoop(s) == pc[s] \in {"waiting", "relaying"}
\* The sessions the registry holds.
Registered == {connections[i] : i \in DOMAIN connections}

\* WebSocketServer.__init__
Init ==
    /\ server = "None" /\ listening = FALSE /\ startPc = "init"
    /\ stopping = FALSE
    /\ connections = [i \in {} |-> 0]
    /\ wsid = [s \in Conns |-> NoId]
    /\ pc = [s \in Conns |-> "unborn"]
    /\ exitPath = [s \in Conns |-> "none"]
    /\ transport = [s \in Conns |-> "gone"]
    /\ app_name = [s \in Conns |-> "unknown"]
    /\ connected_at = [s \in Conns |-> 0]
    /\ last_message_at = [s \in Conns |-> 0]
    /\ framesRead = 0
    /\ removals = [s \in Conns |-> 0]
    /\ now = 0
    /\ sink = <<>>
    /\ stopPc = "idle" /\ stopCalls = 0 /\ closeTasks = {}
    /\ closeResults = [s \in {} |-> "None"]
    /\ closeRequests = [s \in Conns |-> 0]
    /\ bcPc = "idle" /\ bcCalls = 0 /\ bcSnapshot = {}
    /\ results = [s \in {} |-> "True"] /\ failed = 0
    /\ sends = [s \in Conns |-> 0]
    /\ delivered = [s \in Conns |-> 0]
    /\ gmPc = "init" /\ telegram = "idle" /\ notices = <<>>
    /\ relayFailures = 0
    /\ clientPc = "idle" /\ clientReceived = 0 /\ clientCalls = <<>>
    /\ app_configs = [a \in ConfiguredApps |-> "stopped"]
    /\ running_apps = {}
    /\ call = [c \in Calls |-> Idle("none")]
    /\ lastCommand = [fn |-> "none", outcome |-> "none"]
    /\ gmStopPc = "idle" /\ shutdownLog = <<>>
    /\ client = [running |-> FALSE, connected |-> FALSE, websocket |-> "None",
                 reconnect_count |-> 0]
    /\ socket = "none" /\ connectPc = "idle" /\ disconnectPc = "idle"
    /\ connectLog = [attempts |-> 0, successes |-> 0, failures |-> 0, unexpected |-> 0,
                     waited |-> 0, preceding |-> 0, on_close |-> 0]


\* ------------------------------------------------- code of the operations
\* A cleanup that empties the registry instead of removing one entry.
UnregisterClears(conns, id) == [j \in {} |-> 0]

\* A cleanup that, not finding its id, removes the entry with the lowest id.
UnregisterEvicts(conns, id) ==
    IF id \in DOMAIN conns
    THEN [j \in DOMAIN conns \ {id} |-> conns[j]]
    ELSE IF DOMAIN conns = {} THEN conns
         ELSE LET low == CHOOSE k \in DOMAIN conns : \A j \in DOMAIN conns : k <= j
              IN  [j \in DOMAIN conns \ {low} |-> conns[j]]

\* The finally block of _handle_connection: `if conn.id in self.connections:
\* del self.connections[conn.id]`.
Unregister(conns, id) ==
    IF id \in DOMAIN conns
    THEN [j \in DOMAIN conns \ {id} |-> conns[j]]
    ELSE conns

\* 1 when the finally block executes its `del`, 0 when its test is false.
Deletes(conns, id) == IF id \in DOMAIN conns THEN 1 ELSE 0

\* A handler that enters its loop without registering.
RegisterForgets(conns, id, s) == conns

\* `self.connections[conn.id] = conn`
Register(conns, id, s) ==
    [j \in DOMAIN conns \cup {id} |-> IF j = id THEN s ELSE conns[j]]

\* An id that says nothing of the object's lifetime: any value at any time.
FreeIdsAnyAddress == Ids

\* The values id(websocket) can take for a new websocket object: any address
\* that no websocket of a running handler occupies.
FreeIds == Ids \ {wsid[t] : t \in {u \in Conns : InLoop(u)}}

\* i is the lowest of the free ids.
LowestFree(i) == i \in FreeIds /\ \A j \in FreeIds : i <= j

\* A handler whose cleanup sits in an `except Exception` clause, which a
\* cancellation bypasses.
LeaveLeaksOnCancel(s, path) ==
    /\ pc' = [pc EXCEPT ![s] = "closed"]
    /\ exitPath' = [exitPath EXCEPT ![s] = path]
    /\ removals' = [removals EXCEPT ![s] =
          IF path = "cancelled" THEN @ ELSE @ + Deletes(connections, wsid[s])]
    /\ connections' =
          IF path = "cancelled" THEN connections ELSE Unregister(connections, wsid[s])
    /\ wsid' = [wsid EXCEPT ![s] = NoId]
    /\ transport' = [transport EXCEPT ![s] = "gone"]
    /\ app_name' = [app_name EXCEPT ![s] = "unknown"]
    /\ connected_at' = [connected_at EXCEPT ![s] = 0]
    /\ last_message_at' = [last_message_at EXCEPT ![s] = 0]

\* A receive loop is left on `path`: the finally block runs before the task
\* gives up control, then the task returns and the connection object is gone.
Leave(s, path) ==
    /\ pc' = [pc EXCEPT ![s] = "closed"]
    /\ exitPath' = [exitPath EXCEPT ![s] = path]
    /\ removals' = [removals EXCEPT ![s] = @ + Deletes(connections, wsid[s])]
    /\ connections' = Unregister(connections, wsid[s])
    /\ wsid' = [wsid EXCEPT ![s] = NoId]
    /\ transport' = [transport EXCEPT ![s] = "gone"]
    /\ app_name' = [app_name EXCEPT ![s] = "unknown"]
    /\ connected_at' = [connected_at EXCEPT ![s] = 0]
    /\ last_message_at' = [last_message_at EXCEPT ![s] = 0]

handlerVars == <<connections, wsid, pc, exitPath, transport, connFields, removals>>
coreVars == <<serverVars, stopping, handlerVars, framesRead, now, sink, stopVars, bcVars>>

\* start() succeeds: websockets.serve returned the server.
StartOk ==
    /\ startPc = "init"
    /\ startPc' = "started"
    /\ server' = "Server"
    /\ listening' = TRUE
    /\ UNCHANGED <<gmVars, extVars, framesRead, stopping, handlerVars, now, sink, stopVars, bcVars>>

\* start() fails: websockets.serve raised OSError, which start() re-raises.
StartFail ==
    /\ startPc = "init"
    /\ startPc' = "failed"
    /\ UNCHANGED <<gmVars, extVars, framesRead, server, listening, stopping, handlerVars, now, sink, stopVars,
                   bcVars>>

\* A Grandmaster.start that logs the failure of the WebSocket server and
\* goes on.
GmServerStartedSwallows ==
    /\ gmPc = "init"
    /\ startPc # "init"
    /\ gmPc' = "telegram"
    /\ UNCHANGED <<extVars, serverVars, stopping, handlerVars, framesRead, now, sink, stopVars,
                   bcVars, telegram, notices>>

\* Grandmaster.start after `await self.websocket_server.start()`: it goes on
\* to the Telegram client if the call returned, and raises RuntimeError,
\* leaving start(), if the call raised.
GmServerStarted ==
    /\ gmPc = "init"
    /\ startPc # "init"
    /\ gmPc' = IF startPc = "started" THEN "telegram" ELSE "aborted"
    /\ UNCHANGED <<extVars, serverVars, stopping, handlerVars, framesRead, now, sink, stopVars,
                   bcVars, telegram, notices>>

\* `await self.telegram.start()` returns or raises; a failure is logged and
\* Grandmaster.start continues.
TelegramStart(ok) ==
    /\ gmPc = "telegram"
    /\ telegram' = IF ok THEN "started" ELSE "failed"
    /\ gmPc' = "notify"
    /\ UNCHANGED <<extVars, serverVars, stopping, handlerVars, framesRead, now, sink, stopVars,
                   bcVars, notices>>

\* The startup notification: send_message returns whether or not the
\* Telegram client could deliver it.
StartupNotice ==
    /\ gmPc = "notify"
    /\ notices' = Append(notices, "awakened")
    /\ gmPc' = "autostart"
    /\ UNCHANGED <<extVars, serverVars, stopping, handlerVars, framesRead, now, sink, stopVars,
                   bcVars, telegram>>

\* `await self._autostart_apps()` has started the configured applications
\* and Grandmaster.start returns.
Autostart ==
    /\ gmPc = "autostart"
    /\ gmPc' = "started"
    /\ UNCHANGED <<extVars, serverVars, stopping, handlerVars, framesRead, now, sink, stopVars,
                   bcVars, telegram, notices>>

\* The listener accepts its next connection (slots are numbered in the order
\* of acceptance) and _handle_connection runs up to its first await:
\* AppConnection(websocket), then the registration.
Connect(s, i) ==
    /\ listening
    /\ pc[s] = "unborn"
    /\ \A t \in Conns : t < s => pc[t] # "unborn"
    /\ i \in FreeIds
    /\ wsid' = [wsid EXCEPT ![s] = i]
    /\ transport' = [transport EXCEPT ![s] = "open"]
    /\ app_name' = [app_name EXCEPT ![s] = "unknown"]
    /\ connected_at' = [connected_at EXCEPT ![s] = now]
    /\ last_message_at' = [last_message_at EXCEPT ![s] = now]
    /\ connections' = Register(connections, i, s)
    /\ pc' = [pc EXCEPT ![s] = "waiting"]
    /\ UNCHANGED <<gmVars, extVars, serverVars, stopping, exitPath, framesRead, removals, now, sink,
                   stopVars, bcVars>>

\* A receive loop without the `if self._stopping: break` test.
ReceiveIgnoresFlag(s, f) ==
    /\ pc[s] = "waiting"
    /\ transport[s] = "open"
    /\ framesRead' = (framesRead + 1) % 2
    /\ LET r == ProcessFrame(f, app_name[s], last_message_at[s], now)
       IN  CASE r.outcome = "relay" ->
                /\ Len(sink) < MaxSink
                /\ sink' = Append(sink, FormatRelay(r.app_name, r.content))
                /\ pc' = [pc EXCEPT ![s] = "relaying"]
                /\ app_name' = [app_name EXCEPT ![s] = r.app_name]
                /\ last_message_at' = [last_message_at EXCEPT ![s] = r.last_message_at]
                /\ UNCHANGED <<connections, wsid, exitPath, transport, connected_at,
                               removals>>
             [] r.outcome = "continue" ->
                /\ app_name' = [app_name EXCEPT ![s] = r.app_name]
                /\ last_message_at' = [last_message_at EXCEPT ![s] = r.last_message_at]
                /\ UNCHANGED <<connections, wsid, pc, exitPath, transport,
                               connected_at, removals, sink>>
             [] r.outcome = "raise" ->
                /\ Leave(s, "exception")
                /\ UNCHANGED sink
    /\ UNCHANGED <<gmVars, extVars, serverVars, stopping, now, stopVars, bcVars>>

\* A loop that hands the relay to a task of its own and reads on.
ReceiveWhileRelaying(s, f) ==
    /\ pc[s] \in {"waiting", "relaying"}
    /\ transport[s] = "open"
    /\ framesRead' = (framesRead + 1) % 2
    /\ LET r == ProcessFrame(f, app_name[s], last_message_at[s], now)
       IN  IF stopping
           THEN /\ Leave(s, "stopping")
                /\ UNCHANGED sink
           ELSE CASE r.outcome = "relay" ->
                     /\ Len(sink) < MaxSink
                     /\ sink' = Append(sink, FormatRelay(r.app_name, r.content))
                     /\ pc' = [pc EXCEPT ![s] = "relaying"]
                     /\ app_name' = [app_name EXCEPT ![s] = r.app_name]
                     /\ last_message_at' = [last_message_at EXCEPT ![s] = r.last_message_at]
                     /\ UNCHANGED <<connections, wsid, exitPath, transport, connected_at,
                                    removals>>
                  [] r.outcome = "continue" ->
                     /\ app_name' = [app_name EXCEPT ![s] = r.app_name]
                     /\ last_message_at' = [last_message_at EXCEPT ![s] = r.last_message_at]
                     /\ UNCHANGED <<connections, wsid, pc, exitPath, transport,
                                    connected_at, removals, sink>>
                  [] r.outcome = "raise" ->
                     /\ Leave(s, "exception")
                     /\ UNCHANGED sink
    /\ UNCHANGED <<gmVars, extVars, serverVars, stopping, now, stopVars, bcVars>>

\* `async for message in websocket` yields frame f and the loop body runs up
\* to its next await.
Receive(s, f) ==
    /\ pc[s] = "waiting"
    /\ transport[s] = "open"
    /\ framesRead' = (framesRead + 1) % 2
    /\ LET r == ProcessFrame(f, app_name[s], last_message_at[s], now)
       IN  IF stopping
           THEN /\ Leave(s, "stopping")
                /\ UNCHANGED sink
           ELSE CASE r.outcome = "relay" ->
                     /\ Len(sink) < MaxSink
                     /\ sink' = Append(sink, FormatRelay(r.app_name, r.content))
                     /\ pc' = [pc EXCEPT ![s] = "relaying"]
                     /\ app_name' = [app_name EXCEPT ![s] = r.app_name]
                     /\ last_message_at' = [last_message_at EXCEPT ![s] = r.last_message_at]
                     /\ UNCHANGED <<connections, wsid, exitPath, transport, connected_at,
                                    removals>>
                  [] r.outcome = "continue" ->
                     /\ app_name' = [app_name EXCEPT ![s] = r.app_name]
                     /\ last_message_at' = [last_message_at EXCEPT ![s] = r.last_message_at]
                     /\ UNCHANGED <<connections, wsid, pc, exitPath, transport,
                                    connected_at, removals, sink>>
                  [] r.outcome = "raise" ->
                     /\ Leave(s, "exception")
                     /\ UNCHANGED sink
    /\ UNCHANGED <<gmVars, extVars, serverVars, stopping, now, stopVars, bcVars>>

\* grandmaster.send_message returns (a response, or None after it logged a
\* failure: it raises nothing) and the loop awaits the next frame.
RelayDone(s) ==
    /\ pc[s] = "relaying"
    /\ pc' = [pc EXCEPT ![s] = "waiting"]
    /\ UNCHANGED <<gmVars, extVars, serverVars, stopping, connections, wsid, exitPath, transport,
                   connFields, framesRead, removals, now, sink, stopVars, bcVars>>

\* What the Telegram client's send_message can do when it is awaited.
TelegramOutcomes == {"response", "None", "raised"}

\* A Grandmaster.send_message without its try statement: what the Telegram
\* client raises reaches the caller.
send_messagePropagates(outcome) == outcome

\* Grandmaster.send_message: the Telegram client's answer, and None (after
\* an error was logged) when the client raised.
send_message(outcome) == IF outcome = "raised" THEN "None" ELSE outcome

\* `await self.grandmaster.send_message(formatted_message, "bunker")` is
\* over, the Telegram client having answered with `outcome`: the loop awaits
\* the next frame, unless the call raised, which the handler's `except
\* Exception` catches outside the loop.
RelayReturn(s, outcome) ==
    /\ pc[s] = "relaying"
    /\ relayFailures' = relayFailures + (IF outcome = "response" THEN 0 ELSE 1)
    /\ UNCHANGED <<clientVars, reconnectVars, appVars, shutdownVars>>
    /\ IF send_message(outcome) = "raised"
       THEN Leave(s, "exception")
       ELSE /\ pc' = [pc EXCEPT ![s] = "waiting"]
            /\ UNCHANGED <<connections, wsid, exitPath, transport, connFields, removals>>
    /\ UNCHANGED <<gmVars, serverVars, stopping, framesRead, now, sink, stopVars, bcVars>>

\* The peer closes the connection (how = "closed_ok") or the transport
\* breaks (how = "closed_err").
PeerClose(s, how) ==
    /\ InLoop(s)
    /\ transport[s] = "open"
    /\ transport' = [transport EXCEPT ![s] = how]
    /\ UNCHANGED <<gmVars, extVars, serverVars, stopping, connections, wsid, pc, exitPath,
                   connFields, framesRead, removals, now, sink, stopVars, bcVars>>

\* `async for` finds the connection closed: the iteration ends (normal
\* closure) or raises ConnectionClosed (caught at line 188).
LoopEnd(s) ==
    /\ pc[s] = "waiting"
    /\ transport[s] \in {"closed_ok", "closed_err"}
    /\ Leave(s, IF transport[s] = "closed_ok" THEN "graceful" ELSE "transport_error")
    /\ UNCHANGED <<gmVars, extVars, framesRead, serverVars, stopping, now, sink, stopVars, bcVars>>

\* The handler task is cancelled at one of its awaits: CancelledError is no
\* Exception, so only the finally block runs.
Cancel(s) ==
    /\ InLoop(s)
    /\ Leave(s, "cancelled")
    /\ UNCHANGED <<gmVars, extVars, framesRead, serverVars, stopping, now, sink, stopVars, bcVars>>

\* The event loop's clock advances.
Tick ==
    /\ now < MaxTime
    /\ now' = now + 1
    /\ UNCHANGED <<gmVars, extVars, framesRead, serverVars, stopping, handlerVars, sink, stopVars, bcVars>>

\* A server whose close() only stops listening.
ServerCloseKeepsConnections(tr) == tr

\* What self.server.close() does to the connections: the websockets server
\* closes those still open (close code 1001).
ServerClose(tr) ==
    [s \in Conns |-> IF tr[s] = "open" THEN "closed_ok" ELSE tr[s]]

\* A gather without return_exceptions, which returns at the first exception.
GatherFirstException(tasks, res) ==
    DOMAIN res = tasks \/ \E s \in DOMAIN res : res[s] = "exception"

\* `await asyncio.gather(*close_tasks, return_exceptions=True)` returns when
\* every task has finished, whether it returned or raised.
GatherDone(tasks, res) == DOMAIN res = tasks

\* A stop() without its `if self.server:` guard: on a server that was never
\* started it sets the flag before self.server.close() fails.
StopBeginUnguarded ==
    /\ startPc # "init"
    /\ stopPc \in {"idle", "returned"}
    /\ stopCalls < MaxStops
    /\ stopCalls' = stopCalls + 1
    /\ stopping' = TRUE
    /\ IF server = "None"
       THEN /\ stopPc' = "returned"
            /\ UNCHANGED <<closeTasks, closeResults, closeRequests, listening, transport>>
       ELSE /\ closeTasks' = Registered
            /\ closeResults' = [s \in {} |-> "None"]
            /\ closeRequests' = [s \in Conns |-> 0]
            /\ IF Registered = {}
               THEN /\ stopPc' = "wait_closed"
                    /\ listening' = FALSE
                    /\ transport' = ServerClose(transport)
               ELSE /\ stopPc' = "gather"
                    /\ UNCHANGED <<listening, transport>>
    /\ UNCHANGED <<gmVars, extVars, server, startPc, connections, wsid, pc, exitPath, connFields,
                   framesRead, removals, now, sink, bcVars>>

\* stop() is called, which the program does once start() has returned or
\* raised.  Without a server it returns at once; otherwise it sets the flag
\* and builds close_tasks from the registry, and with no task to gather it
\* goes on to self.server.close() without awaiting.
StopBegin ==
    /\ startPc # "init"
    /\ stopPc \in {"idle", "returned"}
    /\ stopCalls < MaxStops
    /\ stopCalls' = stopCalls + 1
    /\ IF server = "None"
       THEN /\ stopPc' = "returned"
            /\ UNCHANGED <<stopping, closeTasks, closeResults, closeRequests,
                           listening, transport>>
       ELSE /\ stopping' = TRUE
            /\ closeTasks' = Registered
            /\ closeResults' = [s \in {} |-> "None"]
            /\ closeRequests' = [s \in Conns |-> 0]
            /\ IF Registered = {}
               THEN /\ stopPc' = "wait_closed"
                    /\ listening' = FALSE
                    /\ transport' = ServerClose(transport)
               ELSE /\ stopPc' = "gather"
                    /\ UNCHANGED <<listening, transport>>
    /\ UNCHANGED <<gmVars, extVars, server, startPc, connections, wsid, pc, exitPath, connFields,
                   framesRead, removals, now, sink, bcVars>>

\* One of stop()'s close tasks runs: websocket.close(1001, ...).  It closes
\* the connection normally, or fails (gather collects the exception).
StopClose(s, ok) ==
    /\ stopPc = "gather"
    /\ s \in closeTasks \ DOMAIN closeResults
    /\ closeResults' = [t \in DOMAIN closeResults \cup {s} |->
          IF t = s THEN (IF ok THEN "None" ELSE "exception") ELSE closeResults[t]]
    /\ closeRequests' = [closeRequests EXCEPT ![s] = @ + 1]
    /\ transport' = [transport EXCEPT ![s] =
          IF @ = "open" THEN (IF ok THEN "closed_ok" ELSE "closed_err") ELSE @]
    /\ UNCHANGED <<gmVars, extVars, serverVars, stopping, connections, wsid, pc, exitPath, connFields,
                   framesRead, removals, now, sink, stopPc, stopCalls, closeTasks, bcVars>>

\* gather returned; self.server.close().
StopServerClose ==
    /\ stopPc = "gather"
    /\ GatherDone(closeTasks, closeResults)
    /\ stopPc' = "wait_closed"
    /\ listening' = FALSE
    /\ transport' = ServerClose(transport)
    /\ UNCHANGED <<gmVars, extVars, server, startPc, stopping, connections, wsid, pc, exitPath,
                   connFields, framesRead, removals, now, sink, stopCalls, closeTasks,
                   closeResults, closeRequests, bcVars>>

\* `await self.server.wait_closed()` returns, which the websockets server
\* allows once every connection handler has returned; stop() returns.
StopReturn ==
    /\ stopPc = "wait_closed"
    /\ \A s \in Conns : ~InLoop(s)
    /\ stopPc' = "returned"
    /\ UNCHANGED <<gmVars, extVars, framesRead, serverVars, stopping, handlerVars, now, sink, stopCalls,
                   closeTasks, closeResults, closeRequests, bcVars>>

\* What can happen to the one statement of AppConnection.send's try block,
\* `await self.websocket.send(json.dumps(message))`: the frame is written
\* ("sent"), the write raises ("raised"), or json.dumps raises before
\* anything is written ("unserializable").
SendOutcomes == {"sent", "raised", "unserializable"}

\* A send without its try/except, which lets the exception through.
SendResultRaises(state, outcome) ==
    IF state = "open" /\ outcome = "sent" THEN "True" ELSE "exception"

\* AppConnection.send: json.dumps and one websocket.send inside try; True
\* if nothing was raised, False on any Exception.
SendResult(state, outcome) ==
    IF state = "open" /\ outcome = "sent" THEN "True" ELSE "False"

\* A count with the test inverted.
CountFailedInverted(res) == Cardinality({s \in DOMAIN res : res[s] = "True"})

\* `sum(1 for r in results if r is not True)`
CountFailed(res) == Cardinality({s \in DOMAIN res : res[s] # "True"})

\* A broadcast that awaits each send inside its loop over the registry: the
\* first send has run when the call first gives up control.
BroadcastBeginSendsInLoop ==
    /\ bcPc \in {"idle", "returned"}
    /\ bcCalls < MaxBroadcasts
    /\ bcCalls' = bcCalls + 1
    /\ bcSnapshot' = Registered
    /\ bcPc' = IF Registered = {} THEN "returned" ELSE "gather"
    /\ results' = [s \in {t \in Registered : \A u \in Registered : t <= u} |-> "True"]
    /\ failed' = 0
    /\ sends' = [s \in Conns |->
          IF s \in Registered /\ \A u \in Registered : s <= u THEN 1 ELSE 0]
    /\ delivered' = [s \in Conns |-> 0]
    /\ UNCHANGED <<gmVars, extVars, framesRead, serverVars, stopping, handlerVars, now, sink, stopVars>>

\* broadcast(message) is called: it returns at once on an empty registry,
\* otherwise it creates one conn.send per registered connection.
BroadcastBegin ==
    /\ bcPc \in {"idle", "returned"}
    /\ bcCalls < MaxBroadcasts
    /\ bcCalls' = bcCalls + 1
    /\ bcSnapshot' = Registered
    /\ bcPc' = IF Registered = {} THEN "returned" ELSE "gather"
    /\ results' = [s \in {} |-> "True"]
    /\ failed' = 0
    /\ sends' = [s \in Conns |-> 0]
    /\ delivered' = [s \in Conns |-> 0]
    /\ UNCHANGED <<gmVars, extVars, framesRead, serverVars, stopping, handlerVars, now, sink, stopVars>>

\* A broadcast that drops from the registry a connection whose send failed.
BroadcastSendPrunes(s, outcome) ==
    /\ bcPc = "gather"
    /\ s \in bcSnapshot \ DOMAIN results
    /\ sends' = [sends EXCEPT ![s] = @ + 1]
    /\ delivered' = [delivered EXCEPT ![s] =
          IF transport[s] = "open" /\ outcome = "sent" THEN @ + 1 ELSE @]
    /\ results' = [t \in DOMAIN results \cup {s} |->
          IF t = s THEN SendResult(transport[s], outcome) ELSE results[t]]
    /\ connections' =
          IF SendResult(transport[s], outcome) = "False"
          THEN Unregister(connections, wsid[s]) ELSE connections
    /\ UNCHANGED <<gmVars, extVars, serverVars, stopping, wsid, pc, exitPath, transport, connFields,
                   framesRead, removals, now, sink, stopVars,
                   bcPc, bcCalls, bcSnapshot, failed>>

\* One of broadcast's send tasks runs: the write reaches the peer
\* ("sent", possible on an open transport only) or something is raised.
BroadcastSend(s, outcome) ==
    /\ bcPc = "gather"
    /\ s \in bcSnapshot \ DOMAIN results
    /\ sends' = [sends EXCEPT ![s] = @ + 1]
    /\ delivered' = [delivered EXCEPT ![s] =
          IF transport[s] = "open" /\ outcome = "sent" THEN @ + 1 ELSE @]
    /\ results' = [t \in DOMAIN results \cup {s} |->
          IF t = s THEN SendResult(transport[s], outcome) ELSE results[t]]
    /\ UNCHANGED <<gmVars, extVars, framesRead, serverVars, stopping, handlerVars, now, sink, stopVars,
                   bcPc, bcCalls, bcSnapshot, failed>>

\* gather returned every result; broadcast counts the failures and returns.
BroadcastEnd ==
    /\ bcPc = "gather"
    /\ GatherDone(bcSnapshot, results)
    /\ failed' = CountFailed(results)
    /\ results' = [s \in {} |-> "True"]
    /\ bcPc' = "returned"
    /\ UNCHANGED <<gmVars, extVars, framesRead, serverVars, stopping, handlerVars, now, sink, stopVars,
                   bcCalls, bcSnapshot, sends, delivered>>

\* ------------------------------------------- the application operations
\* Each caller runs one of start_app, stop_app, restart_app, register_app and
\* unregister_app at a time; a step is the code between two awaits that can
\* suspend (the notification, the shell command in its thread, the sleep).

\* The caller is inside fn (start_app or stop_app) for op, its own call or
\* the call of restart_app / unregister_app.
Inside(op, fn, app, at) == [op |-> op, fn |-> fn, app |-> app, pc |-> at, ret |-> "none"]

\* start_app up to its first await: False for an unknown name, True for a
\* name in running_apps, else the "Starting app" notification is awaited.
StartAppEntry(op, app) ==
    IF app \notin DOMAIN app_configs THEN Idle("False")
    ELSE IF app \in running_apps THEN Idle("True")
    ELSE Inside(op, "start_app", app, "notified")

\* start_app(app_name) is called.
CallStartApp(c, app) ==
    /\ call[c].op = "none"
    /\ call' = [call EXCEPT ![c] = StartAppEntry("start_app", app)]
    /\ UNCHANGED <<gmVars, relayVars, clientVars, reconnectVars, shutdownVars, coreVars, app_configs, running_apps,
                   lastCommand>>

\* stop_app(app_name) is called: False for an unknown name, True for a name
\* not in running_apps, else the "Stopping app" notification is awaited.
CallStopApp(c, app) ==
    /\ call[c].op = "none"
    /\ call' = [call EXCEPT ![c] =
          IF app \notin DOMAIN app_configs THEN Idle("False")
          ELSE IF app \notin running_apps THEN Idle("True")
          ELSE Inside("stop_app", "stop_app", app, "notified")]
    /\ UNCHANGED <<gmVars, relayVars, clientVars, reconnectVars, shutdownVars, coreVars, app_configs, running_apps,
                   lastCommand>>

\* restart_app(app_name) is called: it awaits stop_app if the name is in
\* running_apps, and then, whatever stop_app returned, sleeps.
CallRestartApp(c, app) ==
    /\ call[c].op = "none"
    /\ call' = [call EXCEPT ![c] =
          IF app \in running_apps /\ app \in DOMAIN app_configs
          THEN Inside("restart_app", "stop_app", app, "notified")
          ELSE Inside("restart_app", "restart_app", app, "sleep")]
    /\ UNCHANGED <<gmVars, relayVars, clientVars, reconnectVars, shutdownVars, coreVars, app_configs, running_apps,
                   lastCommand>>

\* `await asyncio.sleep(2)` of restart_app is over: `return await
\* self.start_app(app_name)`.
RestartWake(c) ==
    /\ call[c].fn = "restart_app" /\ call[c].pc = "sleep"
    /\ call' = [call EXCEPT ![c] = StartAppEntry("restart_app", call[c].app)]
    /\ UNCHANGED <<gmVars, relayVars, clientVars, reconnectVars, shutdownVars, coreVars, app_configs, running_apps,
                   lastCommand>>

\* register_app({"app_name": app, ...}): an existing name is refused; else
\* the configuration is added with status "stopped" and saved, and the
\* answer tells whether save_configs succeeded.
CallRegisterApp(c, app, saved) ==
    /\ call[c].op = "none"
    /\ IF app \in DOMAIN app_configs
       THEN /\ call' = [call EXCEPT ![c] = Idle("False")]
            /\ UNCHANGED app_configs
       ELSE /\ app_configs' = [a \in DOMAIN app_configs \cup {app} |->
                                  IF a = app THEN "stopped" ELSE app_configs[a]]
            /\ call' = [call EXCEPT ![c] = Idle(IF saved THEN "True" ELSE "False")]
    /\ UNCHANGED <<gmVars, relayVars, clientVars, reconnectVars, shutdownVars, coreVars, running_apps, lastCommand>>

\* The end of unregister_app on the configurations `configs`:
\* `self.app_configs.pop(app_name)`, save_configs, and the configuration put
\* back when the save failed.  pop raises KeyError for a name that is gone.
PopConfig(configs, app, saved) ==
    IF app \notin DOMAIN configs THEN [configs |-> configs, ret |-> "KeyError"]
    ELSE IF saved THEN [configs |-> [a \in DOMAIN configs \ {app} |-> configs[a]],
                        ret |-> "True"]
    ELSE [configs |-> configs, ret |-> "False"]

\* unregister_app(app_name) is called: an unknown name is refused; for a
\* name in running_apps stop_app is awaited first; else the configuration
\* is removed.
CallUnregisterApp(c, app, saved) ==
    /\ call[c].op = "none"
    /\ IF app \notin DOMAIN app_configs
       THEN /\ call' = [call EXCEPT ![c] = Idle("False")]
            /\ UNCHANGED app_configs
       ELSE IF app \in running_apps
       THEN /\ call' = [call EXCEPT ![c] =
                  Inside("unregister_app", "stop_app", app, "notified")]
            /\ UNCHANGED app_configs
       ELSE /\ app_configs' = PopConfig(app_configs, app, saved).configs
            /\ call' = [call EXCEPT ![c] = Idle(PopConfig(app_configs, app, saved).ret)]
    /\ UNCHANGED <<gmVars, relayVars, clientVars, reconnectVars, shutdownVars, coreVars, running_apps, lastCommand>>

\* The notification of start_app / stop_app has been sent (or not:
\* send_message raises nothing) and _start_process_app / _stop_process_app
\* hands the application's command to a thread, where it is executed.
RunCommand(c) ==
    /\ call[c].fn \in {"start_app", "stop_app"} /\ call[c].pc = "notified"
    /\ call' = [call EXCEPT ![c].pc = "cmd"]
    /\ UNCHANGED <<gmVars, relayVars, clientVars, reconnectVars, shutdownVars, coreVars, app_configs, running_apps,
                   lastCommand>>

\* How the command handed to the thread can end: exit status 0, another
\* exit status (or the 60 s timeout), or safe_execute_shell_cmd /
\* asyncio.to_thread raising.
CommandOutcomes == {"success", "failure", "raised"}

\* A helper that takes an exception for a success.
ProcessAppResultSwallows(outcome) == outcome # "failure"

\* _start_process_app / _stop_process_app (and the Docker pair): True when
\* result['success'], False when not, and False from `except Exception`.
ProcessAppResult(outcome) == outcome = "success"

\* The start command has ended, successfully or not.  After a failure
\* start_app returns False; after a success it sets the status, adds the
\* name to running_apps and returns True.  For a name whose configuration is
\* gone the assignment of the status raises KeyError, which start_app
\* answers with False.
StartAppResult(c, outcome) ==
    LET app == call[c].app
        done == ProcessAppResult(outcome) /\ app \in DOMAIN app_configs
    IN  /\ call[c].fn = "start_app" /\ call[c].pc = "cmd"
        /\ lastCommand' = [fn |-> "start_app", outcome |-> outcome]
        /\ app_configs' = IF done THEN [app_configs EXCEPT ![app] = "running"]
                          ELSE app_configs
        /\ running_apps' = IF done THEN running_apps \cup {app} ELSE running_apps
        /\ call' = [call EXCEPT ![c] = Idle(IF done THEN "True" ELSE "False")]
        /\ UNCHANGED <<gmVars, relayVars, clientVars, reconnectVars, shutdownVars, coreVars>>

\* What the caller of stop_app does with its answer `stopped`: stop_app's
\* own caller has it; restart_app sleeps whatever it was; unregister_app
\* ignores it and removes the configuration.
AfterStop(op, app, stopped, configs, saved) ==
    IF op = "stop_app" THEN [configs |-> configs,
                             call |-> Idle(IF stopped THEN "True" ELSE "False")]
    ELSE IF op = "restart_app"
    THEN [configs |-> configs, call |-> Inside(op, "restart_app", app, "sleep")]
    ELSE [configs |-> PopConfig(configs, app, saved).configs,
          call |-> Idle(PopConfig(configs, app, saved).ret)]

\* The stop command has ended, successfully or not.  After a failure
\* stop_app returns False; after a success it sets the status, deletes the
\* name from running_apps and returns True (False if the configuration is
\* gone: KeyError).  Its caller goes on from there.
StopAppResult(c, outcome, saved) ==
    LET app == call[c].app
        done == ProcessAppResult(outcome) /\ app \in DOMAIN app_configs
        configs == IF done THEN [app_configs EXCEPT ![app] = "stopped"] ELSE app_configs
        after == AfterStop(call[c].op, app, done, configs, saved)
    IN  /\ call[c].fn = "stop_app" /\ call[c].pc = "cmd"
        /\ lastCommand' = [fn |-> "stop_app", outcome |-> outcome]
        /\ running_apps' = IF done THEN running_apps \ {app} ELSE running_apps
        /\ app_configs' = after.configs
        /\ call' = [call EXCEPT ![c] = after.call]
        /\ UNCHANGED <<gmVars, relayVars, clientVars, reconnectVars, shutdownVars, coreVars>>

\* ------------------------------------------------- Grandmaster.stop
\* Grandmaster.stop is called when no application operation is in progress;
\* the stop_app task it creates for application a is caller a.

\* One step of Grandmaster.stop as it appears in shutdownLog.
Logged(step, outcome) == [step |-> step, outcome |-> outcome]

\* Grandmaster.stop is called: one stop_app task for every name in
\* running_apps, each run up to its first await, and gather awaits them.
GmStopBegin ==
    /\ gmStopPc = "idle"
    /\ startPc # "init"
    /\ \A c \in Calls : call[c].op = "none"
    /\ running_apps \subseteq Calls
    /\ gmStopPc' = "apps"
    /\ call' = [c \in Calls |->
          IF c \notin running_apps THEN call[c]
          ELSE IF c \notin DOMAIN app_configs THEN Idle("False")
          ELSE Inside("stop_app", "stop_app", c, "notified")]
    /\ UNCHANGED <<gmVars, relayVars, clientVars, reconnectVars, coreVars, app_configs, running_apps,
                   lastCommand, shutdownLog>>

\* gather has collected what the stop_app tasks returned (there may have
\* been none); Grandmaster.stop goes on to `await
\* self.websocket_server.stop()`.
GmAppsStopped ==
    /\ gmStopPc = "apps"
    /\ \A c \in Calls : call[c].op = "none"
    /\ shutdownLog' = Append(shutdownLog,
          Logged("apps", IF running_apps = {} THEN "done" ELSE "failed"))
    /\ gmStopPc' = "websocket"
    /\ UNCHANGED <<gmVars, relayVars, clientVars, reconnectVars, coreVars, app_configs, running_apps,
                   call, lastCommand>>

\* The WebSocketServer.stop that Grandmaster.stop awaits.
GmServerStop == gmStopPc = "websocket" /\ stopPc = "idle" /\ StopBegin

\* `await self.server.wait_closed()` raises, and the exception leaves
\* WebSocketServer.stop.
StopRaise ==
    /\ stopPc = "wait_closed"
    /\ stopPc' = "raised"
    /\ UNCHANGED <<gmVars, extVars, framesRead, serverVars, stopping, handlerVars, now, sink,
                   stopCalls, closeTasks, closeResults, closeRequests, bcVars>>

\* A Grandmaster.stop without the try statement around the server's stop.
GmServerStoppedPropagates ==
    /\ gmStopPc = "websocket"
    /\ stopPc \in {"returned", "raised"}
    /\ shutdownLog' = Append(shutdownLog,
          Logged("websocket", IF stopPc = "returned" THEN "done" ELSE "raised"))
    /\ gmStopPc' = IF stopPc = "returned" THEN "notify" ELSE "aborted"
    /\ UNCHANGED <<gmVars, relayVars, clientVars, reconnectVars, appVars, coreVars>>

\* WebSocketServer.stop has returned, or raised, which Grandmaster.stop
\* logs; the shutdown notification is next.
GmServerStopped ==
    /\ gmStopPc = "websocket"
    /\ stopPc \in {"returned", "raised"}
    /\ shutdownLog' = Append(shutdownLog,
          Logged("websocket", IF stopPc = "returned" THEN "done" ELSE "raised"))
    /\ gmStopPc' = "notify"
    /\ UNCHANGED <<gmVars, relayVars, clientVars, reconnectVars, appVars, coreVars>>

\* `await self.send_message("... has gone cold ...", "bunker")`, the Telegram
\* client answering with `outcome`: send_message returns in every case (the
\* call is in no try statement of Grandmaster.stop).
GmShutdownNotice(outcome) ==
    /\ gmStopPc = "notify"
    /\ notices' = Append(notices, "gone cold")
    /\ shutdownLog' = Append(shutdownLog, Logged("notify", send_message(outcome)))
    /\ gmStopPc' = IF send_message(outcome) = "raised" THEN "aborted" ELSE "telegram"
    /\ UNCHANGED <<gmPc, telegram, relayVars, clientVars, reconnectVars, appVars, coreVars>>

\* `await self.telegram.stop()` returns or raises; a failure is logged and
\* Grandmaster.stop returns.
GmTelegramStop(ok) ==
    /\ gmStopPc = "telegram"
    /\ telegram' = IF ok THEN "stopped" ELSE "stop failed"
    /\ shutdownLog' = Append(shutdownLog, Logged("telegram", IF ok THEN "done" ELSE "raised"))
    /\ gmStopPc' = "returned"
    /\ UNCHANGED <<gmPc, notices, relayVars, clientVars, reconnectVars, appVars, coreVars>>

\* An application operation called before the shutdown.
StartBeforeShutdown(c, app) == gmStopPc = "idle" /\ CallStartApp(c, app)
RegisterBeforeShutdown(c, app) == gmStopPc = "idle" /\ CallRegisterApp(c, app, TRUE)

\* ------------------------------------------------- the Python client
\* The client is constructed with an on_message callback, which returns.

\* GrandmasterClient.connect: websockets.connect succeeded, the greeting is
\* sent, and _listen_for_messages is awaited.
ClientConnect ==
    /\ clientPc = "idle"
    /\ clientPc' = "listening"
    /\ UNCHANGED <<gmVars, relayVars, reconnectVars, appVars, shutdownVars, coreVars, clientReceived, clientCalls>>

\* The first statement of the listener's loop body: json.loads(message),
\* and {"content": message} in its place when JSONDecodeError is raised.
\* Any other exception leaves the loop (exc names it).
ClientData(f) ==
    LET data == json_loads(f)
    IN  IF data.exc = "JSONDecodeError"
        THEN [exc |-> "none", type |-> "dict", app |-> Absent, content |-> f.raw]
        ELSE data

\* _listen_for_messages: `async for` yields frame f, which is decoded and
\* passed to on_message; an exception ends the listener, and connect's
\* `except Exception` calls on_error and breaks out of its loop.
ClientReceive(f) ==
    /\ clientPc = "listening"
    /\ clientReceived < MaxClientFrames
    /\ clientReceived' = clientReceived + 1
    /\ IF ClientData(f).exc = "none"
       THEN /\ clientCalls' = Append(clientCalls, ClientData(f))
            /\ UNCHANGED clientPc
       ELSE /\ clientPc' = "errored"
            /\ UNCHANGED clientCalls
    /\ UNCHANGED <<gmVars, relayVars, reconnectVars, appVars, shutdownVars, coreVars>>

\* The server closes the connection: the listener's `async for` ends and
\* the listener returns.
ClientClosed ==
    /\ clientPc = "listening"
    /\ clientPc' = "closed"
    /\ UNCHANGED <<gmVars, relayVars, reconnectVars, appVars, shutdownVars, coreVars, clientReceived, clientCalls>>

\* ------------------------------ the Python client's connection management
\* The callbacks on_connect, on_error and on_close return.  `socket` is the
\* connection the latest successful websockets.connect produced; the
\* attribute client.websocket refers to it ("websocket") or is None.

RECURSIVE Pow2(_)
Pow2(k) == IF k = 0 THEN 1 ELSE 2 * Pow2(k - 1)

min(a, b) == IF a <= b THEN a ELSE b

\* retry_in = self.reconnect_interval * (2 ** min(self.reconnect_count - 1, 5))
retry_in(reconnect_count) == reconnect_interval * Pow2(min(reconnect_count - 1, 5))

\* A test that lets the count reach one more than max_reconnect_attempts.
MayRetryInclusive(reconnect_count) == reconnect_count <= max_reconnect_attempts

\* self.reconnect_count < self.max_reconnect_attempts, in the `while` test and
\* before the backoff wait.
MayRetry(reconnect_count) == reconnect_count < max_reconnect_attempts

\* After the `while` loop: the fields are cleared, on_close is called, and
\* connect returns.
AfterLoop(c, lg) ==
    /\ client' = [c EXCEPT !.connected = FALSE, !.websocket = "None"]
    /\ connectPc' = "returned"
    /\ connectLog' = [lg EXCEPT !.on_close = @ + 1]

\* The `while` test with the object as c: either the loop body is entered and
\* websockets.connect is awaited, which is a new attempt (the log keeps the
\* wait slept through since the attempt before), or the loop is left.
LoopTop(c, lg) ==
    IF c.running /\ MayRetry(c.reconnect_count)
    THEN /\ client' = c
         /\ connectPc' = "connecting"
         /\ connectLog' = [lg EXCEPT !.attempts = @ + 1, !.preceding = lg.waited,
                                     !.waited = 0]
    ELSE AfterLoop(c, lg)

\* The handler of ConnectionClosed, ConnectionError and OSError: the fields
\* are cleared and on_error is called; if the client is still running the
\* failure is counted, and connect sleeps for retry_in or, at
\* max_reconnect_attempts, breaks out of the loop.  A client no longer
\* running goes back to the `while` test.
ConnectionErrorHandler ==
    LET c == [client EXCEPT !.connected = FALSE, !.websocket = "None"]
        counted == [c EXCEPT !.reconnect_count = @ + 1]
        lg == [connectLog EXCEPT !.failures = @ + 1]
    IN  IF ~c.running
        THEN LoopTop(c, lg)
        ELSE IF MayRetry(counted.reconnect_count)
             THEN /\ client' = counted
                  /\ connectPc' = "sleeping"
                  /\ connectLog' = lg
             ELSE AfterLoop(counted, lg)

\* connect() is called: running is set and the `while` test made.
ConnectCall ==
    /\ connectPc = "idle"
    /\ LoopTop([client EXCEPT !.running = TRUE], connectLog)
    /\ UNCHANGED <<socket, disconnectPc>>
    /\ UNCHANGED <<gmVars, relayVars, clientVars, appVars, shutdownVars, coreVars>>

\* websockets.connect returns a connection: the fields are set, the
\* greeting is sent, on_connect is called, and the listener is awaited.
AttemptSucceeds ==
    /\ connectPc = "connecting"
    /\ connectLog.successes < MaxSuccesses
    /\ socket' = "open"
    /\ client' = [client EXCEPT !.websocket = "websocket", !.connected = TRUE,
                                !.reconnect_count = 0]
    /\ connectPc' = "listening"
    /\ connectLog' = [connectLog EXCEPT !.successes = @ + 1, !.failures = 0]
    /\ UNCHANGED disconnectPc
    /\ UNCHANGED <<gmVars, relayVars, clientVars, appVars, shutdownVars, coreVars>>

\* websockets.connect raises a connection error.
AttemptFails ==
    /\ connectPc = "connecting"
    /\ ConnectionErrorHandler
    /\ UNCHANGED <<socket, disconnectPc>>
    /\ UNCHANGED <<gmVars, relayVars, clientVars, appVars, shutdownVars, coreVars>>

\* The connection breaks while the listener is awaited: `async for` raises
\* ConnectionClosed.
ConnectionLost ==
    /\ connectPc = "listening" /\ socket = "open"
    /\ socket' = "closed"
    /\ ConnectionErrorHandler
    /\ UNCHANGED disconnectPc
    /\ UNCHANGED <<gmVars, relayVars, clientVars, appVars, shutdownVars, coreVars>>

\* The server closes the connection gracefully: `async for` ends, the
\* listener returns, the `async with` block is left, and the `while` test is
\* made again.
ServerCloses ==
    /\ connectPc = "listening" /\ socket = "open"
    /\ socket' = "closed"
    /\ LoopTop(client, connectLog)
    /\ UNCHANGED disconnectPc
    /\ UNCHANGED <<gmVars, relayVars, clientVars, appVars, shutdownVars, coreVars>>

\* The listener finds the connection closed by disconnect(): `async for`
\* ends, and the `while` test is made again.
ListenerEnds ==
    /\ connectPc = "listening" /\ socket = "closed"
    /\ LoopTop(client, connectLog)
    /\ UNCHANGED <<socket, disconnectPc>>
    /\ UNCHANGED <<gmVars, relayVars, clientVars, appVars, shutdownVars, coreVars>>

\* An exception of another class (an invalid handshake, a callback that
\* raises): `except Exception` calls on_error and breaks out of the loop;
\* leaving the `async with` block closes the connection.
UnexpectedError ==
    /\ connectPc \in {"connecting", "listening"}
    /\ socket' = IF connectPc = "listening" THEN "closed" ELSE socket
    /\ AfterLoop(client, [connectLog EXCEPT !.unexpected = @ + 1])
    /\ UNCHANGED disconnectPc
    /\ UNCHANGED <<gmVars, relayVars, clientVars, appVars, shutdownVars, coreVars>>

\* asyncio.sleep(retry_in) returns, and the `while` test is made again.
BackoffEnds ==
    /\ connectPc = "sleeping"
    /\ LoopTop(client, [connectLog EXCEPT !.waited = retry_in(client.reconnect_count)])
    /\ UNCHANGED <<socket, disconnectPc>>
    /\ UNCHANGED <<gmVars, relayVars, clientVars, appVars, shutdownVars, coreVars>>

\* disconnect() is called on a client whose connect() has been called:
\* running is cleared; with connected set and a websocket, the goodbye is
\* sent and websocket.close() awaited on the connection the attribute refers
\* to, which is the open one or one already closed; otherwise the fields are
\* cleared at once.
DisconnectBegin ==
    /\ disconnectPc = "idle" /\ connectPc # "idle"
    /\ IF client.connected /\ client.websocket # "None"
       THEN /\ client' = [client EXCEPT !.running = FALSE]
            /\ disconnectPc' = IF socket = "open" THEN "closing" ELSE "closing stale"
       ELSE /\ client' = [client EXCEPT !.running = FALSE, !.connected = FALSE,
                                        !.websocket = "None"]
            /\ disconnectPc' = "returned"
    /\ UNCHANGED <<socket, connectPc, connectLog>>
    /\ UNCHANGED <<gmVars, relayVars, clientVars, appVars, shutdownVars, coreVars>>

\* websocket.close() returns or raises: the connection it was called on is
\* closed, the fields are cleared, and disconnect returns.
DisconnectEnd ==
    /\ disconnectPc \in {"closing", "closing stale"}
    /\ socket' = IF disconnectPc = "closing" /\ socket = "open" THEN "closed" ELSE socket
    /\ client' = [client EXCEPT !.connected = FALSE, !.websocket = "None"]
    /\ disconnectPc' = "returned"
    /\ UNCHANGED <<connectPc, connectLog>>
    /\ UNCHANGED <<gmVars, relayVars, clientVars, appVars, shutdownVars, coreVars>>

\* The dictionary get_status appends for one connection (remote_address
\* left out): `int(conn.uptime)`, with uptime = loop.time() - connected_at,
\* and `int(conn.last_message_at)`.  Times are whole seconds here, which
\* int() leaves as they are.
ConnectionInfo(s) ==
    [app |-> app_name[s],
     uptime |-> now - connected_at[s],
     last_message |-> last_message_at[s]]

\* WebSocketServer.get_status; connections_info is the list it builds, one
\* dictionary per value of the registry, as the bag of its elements.
get_status ==
    [active |-> server # "None",
     connections |-> Cardinality(DOMAIN connections),
     connections_info |->
        LET infos == {ConnectionInfo(connections[i]) : i \in DOMAIN connections}
        IN  [e \in infos |->
               Cardinality({i \in DOMAIN connections :
                               ConnectionInfo(connections[i]) = e})]]

Next ==
    \/ StartOk
    \/ StartFail
    \/ \E s \in Conns, i \in Ids : Connect(s, i)
    \/ \E s \in Conns, f \in Frames : Receive(s, f)
    \/ \E s \in Conns : RelayDone(s)
    \/ \E s \in Conns, how \in {"closed_ok", "closed_err"} : PeerClose(s, how)
    \/ \E s \in Conns : LoopEnd(s)
    \/ \E s \in Conns : Cancel(s)
    \/ Tick
    \/ StopBegin
    \/ \E s \in Conns, ok \in BOOLEAN : StopClose(s, ok)
    \/ StopServerClose
    \/ StopReturn
    \/ BroadcastBegin
    \/ \E s \in Conns, outcome \in SendOutcomes : BroadcastSend(s, outcome)
    \/ BroadcastEnd

\* The whole server: every operation, every frame, the clock.
Spec == Init /\ [][Next]_vars

\* A connection whose websocket object takes the lowest free id.
Accept(s, i) == LowestFree(i) /\ Connect(s, i)

\* One frame for each way an iteration of the receive loop can end: a relay
\* under a declared name, a decode error that is logged, an exception.
SampleFrames ==
    {f \in Frames : f.raw \in {"{\"app\":\"scout\",\"content\":\"hello\"}", "not-json", "5"}}

\* The life of the connections under start() and stop(): accept, frames,
\* relay, closure by the peer, cancellation, shutdown.  The clock and
\* broadcast() are left out: neither writes the registry, a handler's
\* position or a variable of stop().  A new websocket gets the lowest free
\* id, so that ids are reused as soon as they can be.
NextLifecycle ==
    \/ StartOk
    \/ StartFail
    \/ \E s \in Conns, i \in Ids : Accept(s, i)
    \/ \E s \in Conns, f \in SampleFrames : Receive(s, f)
    \/ \E s \in Conns : RelayDone(s)
    \/ \E s \in Conns, how \in {"closed_ok", "closed_err"} : PeerClose(s, how)
    \/ \E s \in Conns : LoopEnd(s)
    \/ \E s \in Conns : Cancel(s)
    \/ StopBegin
    \/ \E s \in Conns, ok \in BOOLEAN : StopClose(s, ok)
    \/ StopServerClose
    \/ StopReturn

SpecLifecycle == Init /\ [][NextLifecycle]_vars

\* The receive loops of concurrent sessions on a running server: frames,
\* the relay, the clock, and the ways a loop ends by itself.
NextSessions ==
    \/ StartOk
    \/ \E s \in Conns, i \in Ids : Accept(s, i)
    \/ \E s \in Conns, f \in SampleFrames : Receive(s, f)
    \/ \E s \in Conns : RelayDone(s)
    \/ \E s \in Conns, how \in {"closed_ok", "closed_err"} : PeerClose(s, how)
    \/ \E s \in Conns : LoopEnd(s)
    \/ Tick

SpecSessions == Init /\ [][NextSessions]_vars

\* The frames that decode to a JSON object, with or without `app` (a string
\* or not) and `content`, and a second application name.
EnvelopeFrames ==
    {f \in Frames : f.parse = "dict"}
       \cup {Frame("{\"app\":\"relay\"}", "dict", "relay", Absent)}

SessionFrames == EnvelopeFrames \cup {g \in Frames : g.parse = "JSONDecodeError"}

\* The receive loops of sessions that exchange envelopes while the clock
\* runs; a frame that is not JSON comes in between.
NextEnvelopes ==
    \/ StartOk
    \/ \E s \in Conns, i \in Ids : Accept(s, i)
    \/ \E s \in Conns, f \in SessionFrames : Receive(s, f)
    \/ \E s \in Conns : RelayDone(s)
    \/ Tick

SpecEnvelopes == Init /\ [][NextEnvelopes]_vars

\* The receive loops of sessions whose relays meet a notification sink that
\* answers, answers nothing, or raises.
NextRelay ==
    \/ StartOk
    \/ \E s \in Conns, i \in Ids : Accept(s, i)
    \/ \E s \in Conns, f \in SessionFrames : Receive(s, f)
    \/ \E s \in Conns, outcome \in TelegramOutcomes : RelayReturn(s, outcome)
    \/ Tick

SpecRelay == Init /\ [][NextRelay]_vars

\* broadcast and stop at work while sessions connect and disconnect.
NextSnapshot ==
    \/ StartOk
    \/ \E s \in Conns, i \in Ids : Accept(s, i)
    \/ \E s \in Conns : PeerClose(s, "closed_ok")
    \/ \E s \in Conns : LoopEnd(s)
    \/ StopBegin
    \/ \E s \in Conns, ok \in BOOLEAN : StopClose(s, ok)
    \/ StopServerClose
    \/ StopReturn
    \/ BroadcastBegin
    \/ \E s \in Conns, outcome \in SendOutcomes : BroadcastSend(s, outcome)
    \/ BroadcastEnd

SpecSnapshot == Init /\ [][NextSnapshot]_vars

\* A client and the frames a server sends it.
NextClient ==
    \/ ClientConnect
    \/ \E f \in Frames : ClientReceive(f)
    \/ ClientClosed

SpecClient == Init /\ [][NextClient]_vars

\* A client connecting, reconnecting and disconnecting.
NextReconnect ==
    \/ ConnectCall
    \/ AttemptSucceeds
    \/ AttemptFails
    \/ ConnectionLost
    \/ ServerCloses
    \/ ListenerEnds
    \/ UnexpectedError
    \/ BackoffEnds
    \/ DisconnectBegin
    \/ DisconnectEnd

\* The event loop resumes a coroutine whose await is over: a connection
\* attempt ends one way or the other, a sleep ends, close() ends, and the
\* listener sees a closed connection.  What the server and the network do to
\* an open connection, and the calls of connect() and disconnect(), are up
\* to the environment.
SpecReconnect ==
    /\ Init /\ [][NextReconnect]_vars
    /\ WF_vars(AttemptSucceeds \/ AttemptFails)
    /\ WF_vars(BackoffEnds)
    /\ WF_vars(DisconnectEnd)
    /\ WF_vars(ListenerEnds)

\* The application operations called one after the other: a call begins
\* when the one before has returned.
NextApps ==
    \/ \E app \in Apps : CallStartApp(1, app)
    \/ \E app \in Apps : CallStopApp(1, app)
    \/ \E app \in Apps : CallRestartApp(1, app)
    \/ \E app \in Apps, saved \in BOOLEAN : CallRegisterApp(1, app, saved)
    \/ \E app \in Apps, saved \in BOOLEAN : CallUnregisterApp(1, app, saved)
    \/ RunCommand(1)
    \/ \E outcome \in CommandOutcomes : StartAppResult(1, outcome)
    \/ \E outcome \in CommandOutcomes, saved \in BOOLEAN : StopAppResult(1, outcome, saved)
    \/ RestartWake(1)

SpecApps == Init /\ [][NextApps]_vars

\* The application operations called by several callers at once (commands
\* of the Telegram bot, autostart, shutdown), on the one event loop.
NextOverlap ==
    \/ \E c \in Calls, app \in Apps : CallStartApp(c, app)
    \/ \E c \in Calls, app \in Apps : CallStopApp(c, app)
    \/ \E c \in Calls, app \in Apps : CallRestartApp(c, app)
    \/ \E c \in Calls, app \in Apps, saved \in BOOLEAN : CallRegisterApp(c, app, saved)
    \/ \E c \in Calls, app \in Apps, saved \in BOOLEAN : CallUnregisterApp(c, app, saved)
    \/ \E c \in Calls : RunCommand(c)
    \/ \E c \in Calls, outcome \in CommandOutcomes : StartAppResult(c, outcome)
    \/ \E c \in Calls, outcome \in CommandOutcomes, saved \in BOOLEAN :
          StopAppResult(c, outcome, saved)
    \/ \E c \in Calls : RestartWake(c)

SpecOverlap == Init /\ [][NextOverlap]_vars

\* Applications are registered and started, and Grandmaster.stop shuts
\* everything down, each of its steps succeeding or failing.  No session is
\* connected to the WebSocket server.
NextGmStop ==
    \/ StartOk
    \/ StartFail
    \/ \E c \in Calls, app \in Apps : StartBeforeShutdown(c, app)
    \/ \E c \in Calls, app \in Apps : RegisterBeforeShutdown(c, app)
    \/ \E c \in Calls : RunCommand(c)
    \/ \E c \in Calls, outcome \in CommandOutcomes : StartAppResult(c, outcome)
    \/ \E c \in Calls, outcome \in CommandOutcomes : StopAppResult(c, outcome, TRUE)
    \/ GmStopBegin
    \/ GmAppsStopped
    \/ GmServerStop
    \/ StopReturn
    \/ StopRaise
    \/ GmServerStopped
    \/ \E outcome \in TelegramOutcomes : GmShutdownNotice(outcome)
    \/ \E ok \in BOOLEAN : GmTelegramStop(ok)

SpecGmStop == Init /\ [][NextGmStop]_vars

\* Grandmaster.start from its first step, and the connections a server that
\* did start receives meanwhile.
NextStartup ==
    \/ StartOk
    \/ StartFail
    \/ GmServerStarted
    \/ \E ok \in BOOLEAN : TelegramStart(ok)
    \/ StartupNotice
    \/ Autostart
    \/ \E s \in Conns, i \in Ids : Accept(s, i)
    \/ \E s \in Conns, f \in SampleFrames : Receive(s, f)
    \/ \E s \in Conns : RelayDone(s)
    \/ \E s \in Conns, how \in {"closed_ok", "closed_err"} : PeerClose(s, how)
    \/ \E s \in Conns : LoopEnd(s)

SpecStartup == Init /\ [][NextStartup]_vars

\* stop() among receive loops at any of their points, with the scheduling
\* asyncio gives: a task that can run does run (a relay returns, a loop
\* whose connection is closed ends, a close task and the steps of stop()
\* complete).  What the peers do (send a frame, let the transport break),
\* and when stop() is called, is not forced.
NextShutdown ==
    \/ StartOk
    \/ \E s \in Conns, i \in Ids : Accept(s, i)
    \/ \E s \in Conns, f \in SampleFrames : Receive(s, f)
    \/ \E s \in Conns : RelayDone(s)
    \/ \E s \in Conns : PeerClose(s, "closed_err")
    \/ \E s \in Conns : LoopEnd(s)
    \/ StopBegin
    \/ \E s \in Conns, ok \in BOOLEAN : StopClose(s, ok)
    \/ StopServerClose
    \/ StopReturn

FairScheduling ==
    /\ \A s \in Conns : WF_vars(RelayDone(s))
    /\ \A s \in Conns : WF_vars(LoopEnd(s))
    /\ \A s \in Conns : WF_vars(\E ok \in BOOLEAN : StopClose(s, ok))
    /\ WF_vars(StopServerClose)
    /\ WF_vars(StopReturn)

SpecShutdown == Init /\ [][NextShutdown]_vars /\ FairScheduling

\* broadcast() among connections that come and go.  broadcast reads the
\* registry and the transports and writes only its own variables; frames,
\* the clock and stop() reach it only through the closing of a connection,
\* which PeerClose, LoopEnd and Cancel produce here.
NextBroadcast ==
    \/ StartOk
    \/ \E s \in Conns, i \in Ids : Connect(s, i)
    \/ \E s \in Conns, how \in {"closed_ok", "closed_err"} : PeerClose(s, how)
    \/ \E s \in Conns : LoopEnd(s)
    \/ \E s \in Conns : Cancel(s)
    \/ BroadcastBegin
    \/ \E s \in Conns, outcome \in SendOutcomes : BroadcastSend(s, outcome)
    \/ BroadcastEnd

SpecBroadcast == Init /\ [][NextBroadcast]_vars

\* ------------------------------------------------------------- properties
Live == {s \in Conns : InLoop(s)}

\* C1: the registry holds exactly the connections whose handler has
\* registered and has not yet run its cleanup, each under its own id, so the
\* connection count is the number of receive loops that have not exited.
C1_RegistryMatchesLoops ==
    /\ Registered = Live
    /\ \A s \in Live : wsid[s] \in DOMAIN connections /\ connections[wsid[s]] = s
    /\ get_status.connections = Cardinality(Live)

\* Both connections were accepted, one has left through its cleanup and
\* the other is still in its loop: the count is 1.
C1_Witness ==
    \E s, t \in Conns :
        /\ pc[s] = "closed" /\ InLoop(t)
        /\ Cardinality(DOMAIN connections) = 1

\* C2: whichever path ends a receive loop, the registry entry is removed
\* exactly once: a returned handler has executed one `del`, which found its
\* entry, and left no entry behind; a running handler has executed none.
C2_CleanupExactlyOnce ==
    \A s \in Conns :
        /\ removals[s] <= 1
        /\ pc[s] = "closed" => (removals[s] = 1 /\ s \notin Registered)
        /\ pc[s] # "closed" => removals[s] = 0

\* A handler ended by cancellation and one ended by the stopping flag, both
\* cleaned up once.
C2_Witness ==
    \E s, t \in Conns :
        /\ exitPath[s] = "cancelled" /\ removals[s] = 1
        /\ exitPath[t] = "stopping" /\ removals[t] = 1
        /\ connections = [i \in {} |-> 0]

\* C3: a frame whose body is not valid JSON never terminates the receive
\* loop: after it the session is still registered and awaits its next frame.
C3_InvalidJsonKeepsLoop ==
    [][\A s \in Conns, f \in Frames :
          (~stopping /\ json_loads(f).exc # "none" /\ Receive(s, f))
             => (pc'[s] = "waiting" /\ s \in Registered')]_vars

\* C4: a frame whose body is valid JSON, object or not, leaves the session
\* registered with its receive loop running.
C4_EveryJsonValueKeepsLoop ==
    [][\A s \in Conns, f \in Frames :
          (~stopping /\ json_loads(f).exc = "none" /\ Receive(s, f))
             => (pc'[s] \in {"waiting", "relaying"} /\ s \in Registered')]_vars

\* C5: a frame that fails to parse as JSON is relayed to the notification
\* sink as the envelope {content: <raw text>}.
C5_InvalidJsonIsRelayed ==
    [][\A s \in Conns, f \in Frames :
          (~stopping /\ json_loads(f).exc = "JSONDecodeError" /\ Receive(s, f))
             => sink' = Append(sink, FormatRelay(app_name[s], f.raw))]_vars

\* C6: broadcast sends once to each connection of its snapshot and to no
\* other, and returns with a failure count equal to the number of those
\* sends that did not reach the peer.
C6_BroadcastCountsFailures ==
    /\ \A s \in Conns : sends[s] <= 1 /\ (s \notin bcSnapshot => sends[s] = 0)
    /\ bcPc = "gather" => \A s \in bcSnapshot : sends[s] = 1 <=> s \in DOMAIN results
    /\ bcPc = "returned" =>
          /\ \A s \in bcSnapshot : sends[s] = 1
          /\ failed = Cardinality({s \in bcSnapshot : delivered[s] = 0})

\* A broadcast over one connection returned with every send failed (M = K),
\* while a connection registered after the snapshot got no send.
C6_Witness ==
    /\ bcPc = "returned"
    /\ bcSnapshot # {}
    /\ failed = Cardinality(bcSnapshot)
    /\ \E t \in Registered \ bcSnapshot : sends[t] = 0

\* C7: no step of broadcast changes the registry, and a send to a transport
\* that is already dead is still made and yields a failure.
C7_BroadcastLeavesRegistry ==
    [][/\ (BroadcastBegin \/ BroadcastEnd) => connections' = connections
       /\ \A s \in Conns, o \in SendOutcomes :
             BroadcastSend(s, o) =>
                /\ connections' = connections
                /\ transport[s] # "open" =>
                      (sends'[s] = sends[s] + 1 /\ results'[s] = "False")]_vars

\* Two clients connected, one transport dead: the broadcast returned with
\* one delivery and one failure, and the registry still has both entries.
C7_Witness ==
    /\ bcPc = "returned"
    /\ failed = 1
    /\ Cardinality(DOMAIN connections) = 2
    /\ \E s, t \in Registered \cap bcSnapshot :
          /\ transport[s] \in {"closed_ok", "closed_err"} /\ delivered[s] = 0
          /\ transport[t] = "open" /\ delivered[t] = 1

\* C8: when a receive loop ends by a transport error or an unhandled
\* exception, every other session keeps its registry entry, its fields and
\* its position, and the listener keeps accepting.
C8_FailureIsIsolated ==
    [][\A s \in Conns :
          (InLoop(s) /\ pc'[s] = "closed"
              /\ exitPath'[s] \in {"transport_error", "exception"})
          => /\ \A t \in Conns \ {s} :
                   /\ pc'[t] = pc[t] /\ wsid'[t] = wsid[t]
                   /\ transport'[t] = transport[t]
                   /\ app_name'[t] = app_name[t]
                   /\ last_message_at'[t] = last_message_at[t]
                   /\ InLoop(t) => (wsid[t] \in DOMAIN connections'
                                      /\ connections'[wsid[t]] = t)
             /\ listening' = listening /\ server' = server]_vars

\* One session has died of an unhandled exception while another is in its
\* loop, registered, and the listener is open.
C8_Witness ==
    \E s, t \in Conns :
        /\ exitPath[s] = "exception"
        /\ InLoop(t) /\ t \in Registered
        /\ listening

\* C9: stop() requests the close of every connection registered when it
\* was called, whether or not a close fails, and once it has returned the
\* registry is empty and status() reports no connection.
C9_StopClosesEverySession ==
    /\ \A s \in Conns : closeRequests[s] <= 1 /\ (closeRequests[s] = 1 => s \in closeTasks)
    /\ stopPc \in {"wait_closed", "returned"} =>
          \A s \in closeTasks : closeRequests[s] = 1
    /\ (stopPc = "returned" /\ stopping) =>
          (connections = [i \in {} |-> 0] /\ get_status.connections = 0)

\* stop() found two sessions, one close failed, both got their request, and
\* stop() has returned with the registry empty.
C9_Witness ==
    /\ stopPc = "returned"
    /\ Cardinality(closeTasks) = 2
    /\ \E s \in closeTasks : closeResults[s] = "exception"
    /\ \A s \in closeTasks : closeRequests[s] = 1
    /\ get_status.connections = 0

\* C11: a frame read once the stopping flag is set is not processed: nothing
\* is passed to the notification sink, no status entry gets a new name or
\* timestamp, no other session's fields change, and the loop that read the
\* frame exits through its cleanup.
C11_NoFrameAfterStopping ==
    [][\A s \in Conns, f \in Frames :
          (stopping /\ Receive(s, f))
             => /\ sink' = sink
                /\ pc'[s] = "closed" /\ exitPath'[s] = "stopping"
                /\ s \notin Registered'
                /\ get_status'.connections_info \sqsubseteq get_status.connections_info
                /\ \A t \in Conns \ {s} :
                      app_name'[t] = app_name[t]
                         /\ last_message_at'[t] = last_message_at[t]]_vars

\* stop() has set the flag, a loop has read a frame after that and left, and
\* the sink has received nothing.
C11_Witness ==
    /\ stopping
    /\ \E s \in Conns : exitPath[s] = "stopping" /\ removals[s] = 1
    /\ sink = <<>>

\* C12: whenever the stopping flag is set while a session is in its receive
\* loop, that session eventually leaves the loop and is unregistered, under
\* fair scheduling and whatever its peer does; and at every point of every
\* receive loop at which stop() runs, the registry still holds exactly the
\* sessions in their loop.
C12_StopDrainsSessions ==
    /\ [](\A s \in Conns :
            /\ InLoop(s) => (wsid[s] \in DOMAIN connections /\ connections[wsid[s]] = s)
            /\ ~InLoop(s) => s \notin Registered)
    /\ \A s \in Conns :
          (stopping /\ InLoop(s)) ~> (pc[s] = "closed" /\ s \notin Registered)

\* stop() has returned after closing two sessions, one of which ended
\* without reading any frame after the flag was set, the other after its
\* close task failed.
C12_Witness ==
    /\ stopPc = "returned" /\ stopping
    /\ \E s, t \in closeTasks :
          /\ exitPath[s] = "graceful" /\ closeResults[s] = "None"
          /\ exitPath[t] = "transport_error" /\ closeResults[t] = "exception"

\* C13: every step of a stop() called after a stop() has returned leaves the
\* stopping flag, the registry, the listener, the sessions and the result of
\* status() as they were, finds nothing to close and can return; a stop()
\* on a server that was never started returns at once and changes nothing.
C13_StopIsIdempotent ==
    /\ [][((stopPc = "returned" /\ stopping /\ StopBegin)
             \/ (stopCalls >= 2 /\ (StopServerClose \/ StopReturn
                     \/ \E s \in Conns, ok \in BOOLEAN : StopClose(s, ok))))
           => /\ stopping' = stopping /\ connections' = connections
              /\ listening' = listening /\ server' = server
              /\ get_status' = get_status
              /\ pc' = pc /\ transport' = transport]_vars
    /\ [][(server = "None" /\ StopBegin)
           => /\ stopPc' = "returned"
              /\ UNCHANGED <<serverVars, stopping, handlerVars, sink, now>>]_vars
    /\ [](stopCalls >= 2 /\ server # "None"
            => /\ closeTasks = {}
               /\ stopPc \in {"wait_closed", "returned"}
               /\ \A s \in Conns : ~InLoop(s))

\* A second stop() has returned on a server whose first stop() had ended a
\* session.
C13_Witness ==
    /\ stopCalls = 2 /\ stopPc = "returned" /\ stopping
    /\ \E s \in Conns : exitPath[s] \in {"graceful", "stopping"}
    /\ ~listening /\ connections = [i \in {} |-> 0]

\* C14: on every registry the server reaches and for every id, running the
\* removal a second time is a no-op: it executes no `del` (so nothing can
\* be raised), gives the registry the first removal gave, and both leave
\* every other entry as it was.
C14_UnregisterTwiceIsOnce ==
    \A i \in Ids :
        LET once == Unregister(connections, i)
            twice == Unregister(once, i)
        IN  /\ i \notin DOMAIN once
            /\ Deletes(once, i) = 0
            /\ twice = once
            /\ \A j \in DOMAIN connections \ {i} :
                  j \in DOMAIN twice /\ twice[j] = connections[j]

\* A session has left through the exception path and its cleanup, while
\* another session's entry is in the registry.
C14_Witness ==
    \E s, t \in Conns :
        /\ exitPath[s] = "exception" /\ removals[s] = 1
        /\ t \in Registered /\ wsid[t] \in DOMAIN connections

\* C15: once start() has raised the bind error it is not run again, the
\* server has no listener, reports inactive and has an empty registry, and
\* Grandmaster.start ends in its RuntimeError without having started the
\* Telegram client, sent the startup notification or started an application.
C15_BindFailureAborts ==
    /\ [](startPc = "failed"
            => /\ server = "None" /\ ~listening
               /\ connections = [i \in {} |-> 0]
               /\ ~get_status.active /\ get_status.connections = 0
               /\ gmPc \in {"init", "aborted"}
               /\ telegram = "idle" /\ notices = <<>>)
    /\ [][startPc = "failed" => (startPc' = "failed" /\ server' = "None")]_vars

\* The bind failed and Grandmaster.start has raised.
C15_Witness ==
    startPc = "failed" /\ gmPc = "aborted" /\ telegram = "idle"

\* C16: every call of send runs its write statement once and hands its
\* caller a boolean, never an exception: True exactly when the transport was
\* open and the frame was written, False when the write or the
\* serialization raised, in which case nothing more is attempted and
\* nothing reaches the peer; the caller goes on.
C16_SendReturnsBoolean ==
    [][\A s \in Conns, o \in SendOutcomes :
          BroadcastSend(s, o)
             => /\ sends'[s] = sends[s] + 1
                /\ results'[s] \in {"True", "False"}
                /\ results'[s] = "True" <=> (transport[s] = "open" /\ o = "sent")
                /\ results'[s] = "True" <=> delivered'[s] = delivered[s] + 1
                /\ results'[s] = "False" => delivered'[s] = delivered[s]
                /\ bcPc' = "gather"]_vars

\* Two sends of one broadcast have returned, one True and one False on a
\* transport that was open, each after one attempt.
C16_Witness ==
    /\ bcPc = "gather"
    /\ \E s, t \in DOMAIN results :
          /\ results[s] = "True" /\ sends[s] = 1 /\ delivered[s] = 1
          /\ results[t] = "False" /\ sends[t] = 1 /\ delivered[t] = 0
          /\ transport[t] = "open"

\* C17: a frame that decodes to an envelope with a `content` field makes
\* one call of the notification sink, with the relay text of that content;
\* one without `content` makes none and leaves the session registered and
\* waiting for its next frame; and the sink is called on no other occasion.
C17_SinkOncePerContent ==
    /\ [][\A s \in Conns, f \in EnvelopeFrames :
             (~stopping /\ Receive(s, f))
                => IF f.content # Absent
                   THEN /\ Len(sink') = Len(sink) + 1
                        /\ sink' = Append(sink, FormatRelay(app_name'[s], f.content))
                   ELSE /\ sink' = sink
                        /\ pc'[s] = "waiting" /\ s \in Registered'
                        /\ transport'[s] = "open"]_vars
    /\ [][sink' # sink
             => \E s \in Conns, f \in EnvelopeFrames :
                   f.content # Absent /\ Receive(s, f)]_vars

\* One session has relayed a frame with content and returned to waiting,
\* another has read a frame without content: one sink call in all.
C17_Witness ==
    /\ Len(sink) = 1
    /\ \E s, t \in Conns :
          /\ s # t /\ pc[s] = "waiting" /\ pc[t] = "waiting"
          /\ app_name[s] = "scout" /\ sink[1].app = "scout"
          /\ app_name[t] = "relay" /\ t \in Registered

\* C18: a frame with a string `app` and a `content` is relayed under the
\* name that frame declares, whatever the session was called before, and
\* the session's one registry entry and status summary carry that name.
C18_IdentifiedBeforeRelay ==
    [][\A s \in Conns, f \in EnvelopeFrames :
          (~stopping /\ Receive(s, f) /\ f.app \notin {Absent, NonString}
              /\ f.content # Absent)
             => /\ app_name'[s] = f.app
                /\ Len(sink') = Len(sink) + 1
                /\ SubSeq(sink', 1, Len(sink)) = sink
                /\ sink'[Len(sink')].app = f.app
                /\ sink'[Len(sink')].content = f.content
                /\ connections' = connections
                /\ \E e \in BagToSet(get_status'.connections_info) : e.app = f.app]_vars

\* The scenario: one client, first frame {"app":"scout","content":"hello"}.
C18_Witness ==
    /\ get_status.connections = 1
    /\ \E s \in Registered : app_name[s] = "scout"
    /\ Len(sink) = 1 /\ sink[1].app = "scout" /\ sink[1].content = "hello"
    /\ \A s \in Conns : last_message_at[s] = connected_at[s]

\* C19: a session is created with the name "unknown"; an envelope with a
\* string `app` sets the name to that string; any other frame leaves the
\* name of a session that stays in its loop unchanged; and the name changes
\* on no other occasion.
C19_AppNameFollowsEnvelopes ==
    /\ [][\A s \in Conns, i \in Ids : Connect(s, i) => app_name'[s] = "unknown"]_vars
    /\ [][\A s \in Conns, f \in SessionFrames :
             (~stopping /\ Receive(s, f) /\ pc'[s] # "closed")
                => app_name'[s] = IF f.parse = "dict" /\ f.app \notin {Absent, NonString}
                                  THEN f.app ELSE app_name[s]]_vars
    /\ [][\A s \in Conns :
             (InLoop(s) /\ pc'[s] # "closed" /\ app_name'[s] # app_name[s])
                => \E f \in SessionFrames : Receive(s, f) /\ f.app = app_name'[s]]_vars

\* One session has been renamed, another has read a frame (its timestamp
\* moved) and is still called "unknown".
C19_Witness ==
    \E s, t \in Conns :
        /\ InLoop(s) /\ app_name[s] = "relay"
        /\ InLoop(t) /\ app_name[t] = "unknown"
        /\ last_message_at[t] > connected_at[t]

\* C20: a session is created with last_message_at = connected_at = the time
\* of creation; every frame that decodes to an envelope sets last_message_at
\* to the current time, with or without `app` and `content`; and while the
\* session is in its loop the value never decreases and never passes the
\* clock.
C20_LastMessageAtAdvances ==
    /\ [][\A s \in Conns, i \in Ids :
             Connect(s, i) => (connected_at'[s] = now /\ last_message_at'[s] = now)]_vars
    /\ [][\A s \in Conns, f \in EnvelopeFrames :
             (~stopping /\ Receive(s, f)) => last_message_at'[s] = now]_vars
    /\ [][\A s \in Conns :
             (InLoop(s) /\ pc'[s] # "closed")
                => (last_message_at'[s] >= last_message_at[s]
                       /\ connected_at'[s] = connected_at[s])]_vars
    /\ [](\A s \in Conns :
             InLoop(s) => (connected_at[s] <= last_message_at[s]
                              /\ last_message_at[s] <= now))

\* A session created at time 0 has read, at time 1, an envelope with neither
\* a string `app` nor a `content`.
C20_Witness ==
    \E s \in Conns :
        /\ InLoop(s) /\ app_name[s] = "unknown" /\ sink = <<>>
        /\ connected_at[s] = 0 /\ last_message_at[s] = 1

\* C21: after the server has handled a frame that is not JSON, the
\* session's last_message_at is the time at which the frame was handled.
C21_RawFrameAdvancesTimestamp ==
    [][\A s \in Conns, f \in SessionFrames :
          (~stopping /\ json_loads(f).exc = "JSONDecodeError" /\ Receive(s, f))
             => (pc'[s] = "waiting" /\ last_message_at'[s] = now)]_vars

\* C22: a failure of the notification sink during a relay (the sink answers
\* nothing, or raises) never ends the receive loop: the step that ends the
\* relay leaves the session registered under its id, with its connection and
\* its fields as they were, and waiting for its next frame; no session of
\* these runs, in which nothing else ends a loop, is ever closed.
C22_SinkFailureKeepsLoop ==
    /\ [][\A s \in Conns, o \in TelegramOutcomes \ {"response"} :
            RelayReturn(s, o)
               => /\ pc'[s] = "waiting"
                  /\ transport'[s] = transport[s]
                  /\ wsid'[s] = wsid[s]
                  /\ wsid'[s] \in DOMAIN connections'
                  /\ connections'[wsid'[s]] = s
                  /\ app_name'[s] = app_name[s]]_vars
    /\ [](\A s \in Conns : pc[s] # "closed" /\ exitPath[s] = "none")

\* A session relayed {"app":"scout","content":"hello"}, the sink failed, and
\* the session's next frame, {"app":"relay"}, was processed all the same.
C22_Witness ==
    /\ relayFailures = 1
    /\ Len(sink) = 1 /\ sink[1].app = "scout"
    /\ \E s \in Conns :
          /\ pc[s] = "waiting" /\ app_name[s] = "relay"
          /\ s \in Registered
          /\ \A t \in Conns \ {s} : pc[t] = "unborn"

C24_RegistryReadAsSnapshot ==
    /\ [][/\ bcCalls' = bcCalls + 1
             => /\ bcSnapshot' = Registered
                /\ connections' = connections
                /\ transport' = transport
                /\ \A s \in Conns : sends'[s] = 0 /\ delivered'[s] = 0
                /\ DOMAIN results' = {}
          /\ (stopCalls' = stopCalls + 1 /\ server # "None")
             => /\ closeTasks' = Registered
                /\ connections' = connections
                /\ \A s \in Conns : closeRequests'[s] = 0
                /\ DOMAIN closeResults' = {}
                /\ (Registered # {} => transport' = transport)
          /\ (bcPc = "gather" /\ bcCalls' = bcCalls) => bcSnapshot' = bcSnapshot
          /\ (stopPc = "gather" /\ stopCalls' = stopCalls) => closeTasks' = closeTasks]_vars
    /\ [](\A s \in Conns : /\ (sends[s] > 0 => s \in bcSnapshot)
                            /\ (closeRequests[s] > 0 => s \in closeTasks))
    /\ [](get_status.connections = Cardinality(Registered))

\* broadcast and stop both made their tasks when two sessions were
\* registered; one of the two has left since, and both calls are still
\* gathering the tasks of the two.
C24_Witness ==
    /\ bcPc = "gather" /\ stopPc = "gather"
    /\ Cardinality(bcSnapshot) = 2 /\ closeTasks = bcSnapshot
    /\ Cardinality(Registered) = 1
    /\ \E s \in bcSnapshot \ Registered : pc[s] = "closed" /\ sends[s] = 0

\* C25: every key of the registry is the id of the session stored under it,
\* and that session's handler is running; sessions whose handlers run have
\* different ids; and no step replaces the session stored under a key that
\* stays in the registry: registering never takes the entry of another
\* session.
C25_KeysAreSessionIds ==
    /\ [](\A i \in DOMAIN connections :
             wsid[connections[i]] = i /\ InLoop(connections[i]))
    /\ [](\A s \in Conns, u \in Conns :
             (InLoop(s) /\ InLoop(u) /\ s # u) => wsid[s] # wsid[u])
    /\ [][\A i \in DOMAIN connections \cap DOMAIN connections' :
             connections'[i] = connections[i]]_vars

\* The first session has left and its entry is deleted; the second one is
\* registered under id 1, an address free again by then, and is the session
\* found under that key.
C25_Witness ==
    /\ pc[1] = "closed" /\ removals[1] = 1
    /\ pc[2] = "waiting" /\ wsid[2] = 1
    /\ DOMAIN connections = {1} /\ connections[1] = 2

\* C26: status() holds one summary per session of the registry, its
\* connection count is the number of those summaries, and each summary gives
\* the whole seconds since the session connected (uptime) and the whole
\* seconds since its last message (now minus last_message_at).
C26_StatusSummaries ==
    LET elapsed(s) == [app |-> app_name[s],
                       uptime |-> now - connected_at[s],
                       last_message |-> now - last_message_at[s]]
        expected == {elapsed(connections[i]) : i \in DOMAIN connections}
    IN  /\ BagCardinality(get_status.connections_info) = Cardinality(DOMAIN connections)
        /\ get_status.connections = BagCardinality(get_status.connections_info)
        /\ get_status.connections_info =
              [e \in expected |->
                 Cardinality({i \in DOMAIN connections : elapsed(connections[i]) = e})]

\* C27: every frame the client receives results in exactly one on_message
\* call, after which the listener goes on listening; for a frame that is not
\* valid JSON the call's argument is {"content": <the raw frame>}.
C27_ClientDeliversEveryFrame ==
    [][\A f \in Frames :
          ClientReceive(f)
             => /\ Len(clientCalls') = Len(clientCalls) + 1
                /\ SubSeq(clientCalls', 1, Len(clientCalls)) = clientCalls
                /\ clientPc' = "listening"
                /\ (json_loads(f).exc # "none"
                      => /\ clientCalls'[Len(clientCalls')].type = "dict"
                         /\ clientCalls'[Len(clientCalls')].content = f.raw)]_vars

\* C28: whenever the application operations, called one after the other,
\* have all returned, every name in running_apps is a key of app_configs.
C28_RunningAppsAreConfigured ==
    call[1].op = "none" => running_apps \subseteq DOMAIN app_configs

\* C29: whenever the application operations, called one after the other
\* from a state with every application stopped and running_apps empty, have
\* all returned, an application's configured status is "running" if and
\* only if its name is in running_apps.
C29_StatusMatchesRunningApps ==
    call[1].op = "none"
       => \A a \in Apps :
             (a \in DOMAIN app_configs /\ app_configs[a] = "running") <=> a \in running_apps

\* C30: of the start_app (stop_app) calls in progress at once for one
\* application, at most one executes the start (stop) command: when a call
\* hands the command to its thread, no other call is executing that command
\* for the application, and the application is not already running
\* (already stopped) through a call that overlapped this one.
C30_CommandRunsOnce ==
    [][\A c \in Calls :
          RunCommand(c)
             => /\ \A d \in Calls \ {c} :
                      ~(/\ call[d].fn = call[c].fn
                        /\ call[d].app = call[c].app
                        /\ call[d].pc = "cmd")
                /\ (call[c].fn = "start_app" => call[c].app \notin running_apps)
                /\ (call[c].fn = "stop_app" => call[c].app \in running_apps)]_vars

\* C31: restart_app returns True only at the end of a start command that
\* it executed itself and that succeeded: the step in which a restart_app
\* call returns True is the step that ends its start command, and it leaves
\* the application in running_apps.
C31_RestartRunsStartCommand ==
    [][(call[1].op = "restart_app" /\ call'[1].op = "none" /\ call'[1].ret = "True")
          => /\ call[1].fn = "start_app" /\ call[1].pc = "cmd"
             /\ call[1].app \in running_apps']_vars

\* C32: a register_app or unregister_app call that answers success = false
\* leaves app_configs as it was: the step in which such a call returns
\* changes neither the configured names nor a status (no earlier step of
\* the call writes app_configs).
C32_FailedRegistrationChangesNothing ==
    [][(/\ \/ \E app \in Apps, saved \in BOOLEAN :
                 CallRegisterApp(1, app, saved) \/ CallUnregisterApp(1, app, saved)
           \/ call[1].op = "unregister_app"
        /\ call'[1].op = "none" /\ call'[1].ret = "False")
          => app_configs' = app_configs]_vars

\* C33: when the start command of start_app, or the stop command of
\* stop_app, fails or raises, the call returns False (to its caller, or to
\* the restart_app that awaited it) and running_apps and every configured
\* status are as they were.
C33_FailedCommandChangesNothing ==
    [][\A outcome \in {"failure", "raised"} :
          /\ StartAppResult(1, outcome)
                => /\ running_apps' = running_apps /\ app_configs' = app_configs
                   /\ call'[1] = Idle("False")
          /\ \A saved \in BOOLEAN :
                (StopAppResult(1, outcome, saved) /\ call[1].op # "unregister_app")
                   => /\ running_apps' = running_apps /\ app_configs' = app_configs
                      /\ \/ call'[1] = Idle("False")
                         \/ (call[1].op = "restart_app" /\ call'[1].fn = "restart_app")]_vars

\* The stop command of the running application 1 raised: stop_app answered
\* False, and the application is running and configured as running.
C33_Witness ==
    /\ lastCommand = [fn |-> "stop_app", outcome |-> "raised"]
    /\ call[1] = Idle("False")
    /\ 1 \in running_apps /\ app_configs[1] = "running"

\* C34: a request that matches the current state is a no-op: start_app for
\* a name in running_apps, and stop_app for a configured name not in
\* running_apps, return True in the step of the call, which awaits no
\* notification, executes no command and leaves running_apps and
\* app_configs as they were.
C34_MatchingRequestIsNoOp ==
    [][\A app \in Apps :
          /\ (CallStartApp(1, app) /\ app \in running_apps)
                => /\ call'[1] = Idle("True")
                   /\ running_apps' = running_apps /\ app_configs' = app_configs
                   /\ lastCommand' = lastCommand
          /\ (CallStopApp(1, app) /\ app \in DOMAIN app_configs /\ app \notin running_apps)
                => /\ call'[1] = Idle("True")
                   /\ running_apps' = running_apps /\ app_configs' = app_configs
                   /\ lastCommand' = lastCommand]_vars

\* C35: Grandmaster.stop goes through its steps in one order, whatever the
\* outcome of each: the stop_app tasks, then the WebSocket server's stop,
\* then the shutdown notification, then the Telegram client's stop.  Its log
\* is always an initial part of that order and is complete when stop has
\* returned, stop is never left early, and the components bear it out: the
\* server's stop is not begun before every stop_app task has returned, the
\* notification is not sent before the server's stop is over, and the
\* Telegram client is not stopped before the notification.
C35_ShutdownOrder ==
    LET order == <<"apps", "websocket", "notify", "telegram">>
    IN  /\ Len(shutdownLog) <= 4
        /\ \A k \in 1..Len(shutdownLog) : shutdownLog[k].step = order[k]
        /\ gmStopPc # "aborted"
        /\ gmStopPc = "returned" => Len(shutdownLog) = 4
        /\ (gmStopPc # "idle" /\ stopCalls > 0)
              => (Len(shutdownLog) >= 1 /\ \A c \in Calls : call[c].op = "none")
        /\ "gone cold" \in {notices[k] : k \in 1..Len(notices)}
              => (Len(shutdownLog) >= 3 /\ stopPc \in {"returned", "raised"})
        /\ telegram \in {"stopped", "stop failed"}
              => "gone cold" \in {notices[k] : k \in 1..Len(notices)}

\* Grandmaster.stop has returned although every step failed: an
\* application could not be stopped, the server's stop raised, the
\* notification was not delivered, and the Telegram client's stop raised.
C35_Witness ==
    /\ gmStopPc = "returned"
    /\ shutdownLog = <<Logged("apps", "failed"), Logged("websocket", "raised"),
                       Logged("notify", "None"), Logged("telegram", "raised")>>
    /\ running_apps # {} /\ stopPc = "raised" /\ telegram = "stop failed"

\* C36: the client's connected is True only while its connection is open;
\* once the connection has ended, by an error, by the server closing it or
\* by disconnect(), and the client's code has taken notice, connected is
\* False and websocket is None until a new connection is established.
C36_ConnectedOnlyWhileOpen ==
    /\ client.connected => socket = "open"
    /\ socket = "closed" => (~client.connected /\ client.websocket = "None")

C38_BackoffBeforeReattempt ==
    /\ (connectPc = "connecting" /\ connectLog.attempts >= 2)
          => /\ connectLog.failures >= 1
             /\ connectLog.preceding
                   = reconnect_interval * Pow2(min(connectLog.failures - 1, 5))
             /\ connectLog.preceding <= 32 * reconnect_interval
    /\ \A n \in 1..max_reconnect_attempts : retry_in(n) <= retry_in(n + 1)

\* C39: once disconnect() has been called, connect starts no further
\* connection attempt, and it eventually returns, wherever connect was when
\* disconnect() was called.
C39_DisconnectEndsConnect ==
    /\ [][disconnectPc # "idle" => connectLog'.attempts = connectLog.attempts]_vars
    /\ (disconnectPc # "idle") ~> (connectPc = "returned")

\* C10: status() reports active == false before start() has succeeded and
\* in every state after stop() has returned.
C10_ActiveOnlyWhileRunning ==
    /\ startPc # "started" => ~get_status.active
    /\ (stopPc = "returned" /\ stopping) => ~get_status.active

====
